---- MODULE Spec2Model ----
(***************************************************************************)
(* The Cloudian SDK client (internal/sdk/cloudian) against the Cloudian    *)
(* admin API, and the pure helpers around it.                              *)
(*                                                                         *)
(* Go strings are sequences of characters, a nil pointer is the empty     *)
(* sequence <<>> and a non-nil pointer to v is <<v>>.  An error is one of  *)
(* "nil", "notfound" (errors.Is(err, ErrNotFound) holds) and "other"; the  *)
(* %w wrapping of fmt.Errorf keeps the class.                              *)
(***************************************************************************)
EXTENDS Integers, Sequences, FiniteSets, TLC

VARIABLES
    remoteUsers,   \* remote: the UserIDs of the group's users
    remoteGroup,   \* remote: <<>> or <<the stored wire group>>
    pc,            \* the client's position: idle, list_req, list_ret, del_users, del_group, done
    op,            \* the SDK operation in progress
    offset,        \* ListUsers: offsetUserId of the innermost frame (0 is nil)
    stack,         \* ListUsers: retVal of every frame waiting for its recursive call
    ret,           \* ListUsers: what the frame that returned last returned
    todo,          \* DeleteGroupRecursive: the users the loop has still to delete
    log,           \* the requests the operation has issued, in order
    pages,         \* the user pages the operation has received, in order
    resp,          \* the response to the last request
    faulted,       \* some request of the operation met a failing remote or transport
    result,        \* what the operation returned to its caller
    open,          \* the response bodies the client has obtained and not closed
    input,         \* the pure helpers: the value a helper is applied to
    applied,       \* the pure helpers: the helper that was applied ("" before)
    output,        \* the pure helpers: what it returned
    remoteKeys,    \* remote: for every user, the access keys it owns (User reconciler)
    cr,            \* the User resource that is reconciled
    observation,   \* the ExternalObservation that Observe returned
    client,        \* concurrent use: the Client instance the goroutines share
    procs,         \* concurrent use: every goroutine's operation and its locals
    created        \* remote: the users another actor created while the operation runs

sdkVars == <<remoteUsers, remoteGroup, pc, op, offset, stack, ret, todo, log, pages,
             resp, faulted, result, open>>
pureVars == <<input, applied, output>>
userVars == <<remoteKeys, cr, observation>>
concVars == <<client, procs>>
vars == <<sdkVars, pureVars, userVars, concVars, created>>

----------------------------------------------------------------------------
(* Bounds *)

\* sdk.go:144 sets limit := 100; the model pages by a small limit.
limit == 2
\* The largest UserID, so that a group holds up to MaxUsers users.
MaxUsers == 10

UserIDs == 1..MaxUsers

----------------------------------------------------------------------------
(* Strings and values *)

Nil == <<>>
Ptr(v) == <<v>>

StrTrue == <<"t", "r", "u", "e">>
StrFalse == <<"f", "a", "l", "s", "e">>
StrALL == <<"A", "L", "L">>
StrQA == <<"Q", "A">>
StrHello == <<"H", "i">>

ErrNil == "nil"
ErrNotFound == "notfound"
ErrOther == "other"

\* The numbers of S in increasing order: the i-th has i - 1 smaller ones.
SortedSeq(S) ==
    [i \in 1..Cardinality(S) |-> CHOOSE x \in S : Cardinality({y \in S : y < x}) = i - 1]

User(i) == [UserID |-> i, GroupID |-> StrQA]

----------------------------------------------------------------------------
(* Group and its wire shape *)

Bools == {TRUE, FALSE}

\* strconv.FormatBool
FormatBool(b) == IF b THEN StrTrue ELSE StrFalse

\* (a slip: the endpoint lists are left unset)
toInternalUnsetEndpoints(g) ==
    [Active             |-> FormatBool(g.Active),
     GroupID            |-> g.GroupID,
     GroupName          |-> g.GroupName,
     LDAPEnabled        |-> g.LDAPEnabled,
     LDAPGroup          |-> g.LDAPGroup,
     LDAPMatchAttribute |-> g.LDAPMatchAttribute,
     LDAPSearch         |-> g.LDAPSearch,
     LDAPSearchUserBase |-> g.LDAPSearchUserBase,
     LDAPServerURL      |-> g.LDAPServerURL,
     LDAPUserDNTemplate |-> g.LDAPUserDNTemplate,
     S3EndpointsHTTP    |-> Nil,
     S3EndpointsHTTPS   |-> Nil,
     S3WebSiteEndpoints |-> Nil]
toInternal(g) ==
    [Active             |-> FormatBool(g.Active),
     GroupID            |-> g.GroupID,
     GroupName          |-> g.GroupName,
     LDAPEnabled        |-> g.LDAPEnabled,
     LDAPGroup          |-> g.LDAPGroup,
     LDAPMatchAttribute |-> g.LDAPMatchAttribute,
     LDAPSearch         |-> g.LDAPSearch,
     LDAPSearchUserBase |-> g.LDAPSearchUserBase,
     LDAPServerURL      |-> g.LDAPServerURL,
     LDAPUserDNTemplate |-> g.LDAPUserDNTemplate,
     S3EndpointsHTTP    |-> Ptr(<<StrALL>>),
     S3EndpointsHTTPS   |-> Ptr(<<StrALL>>),
     S3WebSiteEndpoints |-> Ptr(<<StrALL>>)]

\* (a slip: any Active string that is set counts as active)
fromInternalActiveIfSet(g) ==
    [Active             |-> (g.Active # <<>>),
     GroupID            |-> g.GroupID,
     GroupName          |-> g.GroupName,
     LDAPEnabled        |-> g.LDAPEnabled,
     LDAPGroup          |-> g.LDAPGroup,
     LDAPMatchAttribute |-> g.LDAPMatchAttribute,
     LDAPSearch         |-> g.LDAPSearch,
     LDAPSearchUserBase |-> g.LDAPSearchUserBase,
     LDAPServerURL      |-> g.LDAPServerURL,
     LDAPUserDNTemplate |-> g.LDAPUserDNTemplate]
\* (a slip: LDAPEnabled is not copied)
fromInternalWithoutLDAPEnabled(g) ==
    [Active             |-> (g.Active = StrTrue),
     GroupID            |-> g.GroupID,
     GroupName          |-> g.GroupName,
     LDAPEnabled        |-> FALSE,
     LDAPGroup          |-> g.LDAPGroup,
     LDAPMatchAttribute |-> g.LDAPMatchAttribute,
     LDAPSearch         |-> g.LDAPSearch,
     LDAPSearchUserBase |-> g.LDAPSearchUserBase,
     LDAPServerURL      |-> g.LDAPServerURL,
     LDAPUserDNTemplate |-> g.LDAPUserDNTemplate]
fromInternal(g) ==
    [Active             |-> (g.Active = StrTrue),
     GroupID            |-> g.GroupID,
     GroupName          |-> g.GroupName,
     LDAPEnabled        |-> g.LDAPEnabled,
     LDAPGroup          |-> g.LDAPGroup,
     LDAPMatchAttribute |-> g.LDAPMatchAttribute,
     LDAPSearch         |-> g.LDAPSearch,
     LDAPSearchUserBase |-> g.LDAPSearchUserBase,
     LDAPServerURL      |-> g.LDAPServerURL,
     LDAPUserDNTemplate |-> g.LDAPUserDNTemplate]

\* encoding/json, string values: the quote, the backslash and control
\* characters are escaped, <, > and & are written \u00XX, and a byte that is
\* not valid UTF-8 is written as the replacement rune U+FFFD.
EncodeChar(c) ==
    CASE c = "quote"  -> <<"bslash", "quote">>
      [] c = "bslash" -> <<"bslash", "bslash">>
      [] c = "nl"     -> <<"bslash", "n">>
      [] c = "lt"     -> <<"bslash", "u", "0", "0", "3", "c">>
      [] c = "xFF"    -> <<"bslash", "u", "f", "f", "f", "d">>
      [] OTHER        -> <<c>>

RECURSIVE EncodeString(_)
EncodeString(s) ==
    IF s = <<>> THEN <<>> ELSE EncodeChar(Head(s)) \o EncodeString(Tail(s))

\* encoding/json, unquote: the inverse on the text between the quotes.  A
\* bare quote or control character is a syntax error, an unknown escape is a
\* syntax error, and an invalid byte decodes to the replacement rune.
RECURSIVE DecodeString(_)
DecodeString(t) ==
    IF t = <<>> THEN [ok |-> TRUE, val |-> <<>>]
    ELSE IF Head(t) = "bslash" THEN
        IF Len(t) < 2 THEN [ok |-> FALSE, val |-> <<>>]
        ELSE LET e == t[2]
                 simple == CASE e = "quote"  -> <<"quote">>
                             [] e = "bslash" -> <<"bslash">>
                             [] e = "n"      -> <<"nl">>
                             [] OTHER        -> <<>>
             IN IF simple # <<>> THEN
                    LET r == DecodeString(SubSeq(t, 3, Len(t)))
                    IN [ok |-> r.ok, val |-> simple \o r.val]
                ELSE IF e = "u" /\ Len(t) >= 6 THEN
                    LET hex == SubSeq(t, 3, 6)
                        rune == CASE hex = <<"0", "0", "3", "c">> -> <<"lt">>
                                  [] hex = <<"f", "f", "f", "d">> -> <<"uFFFD">>
                                  [] OTHER -> <<>>
                        r == DecodeString(SubSeq(t, 7, Len(t)))
                    IN [ok |-> rune # <<>> /\ r.ok, val |-> rune \o r.val]
                ELSE [ok |-> FALSE, val |-> <<>>]
    ELSE IF Head(t) \in {"quote", "nl"} THEN [ok |-> FALSE, val |-> <<>>]
    ELSE LET r == DecodeString(Tail(t))
             c == IF Head(t) = "xFF" THEN "uFFFD" ELSE Head(t)
         IN [ok |-> r.ok, val |-> <<c>> \o r.val]

\* A []string: nil is written null, a list is written element by element.
EncodeList(l) ==
    IF l = Nil THEN Nil ELSE Ptr([i \in 1..Len(l[1]) |-> EncodeString(l[1][i])])

DecodeList(j) ==
    IF j = Nil THEN [ok |-> TRUE, val |-> Nil]
    ELSE [ok  |-> \A i \in 1..Len(j[1]) : DecodeString(j[1][i]).ok,
          val |-> Ptr([i \in 1..Len(j[1]) |-> DecodeString(j[1][i]).val])]

StringFields == {"Active", "GroupID", "GroupName", "LDAPGroup", "LDAPMatchAttribute",
                 "LDAPSearch", "LDAPSearchUserBase", "LDAPServerURL",
                 "LDAPUserDNTemplate"}
ListFields == {"S3EndpointsHTTP", "S3EndpointsHTTPS", "S3WebSiteEndpoints"}
WireFields == StringFields \cup ListFields \cup {"LDAPEnabled"}

\* json.Marshal of a groupInternal: the JSON object, member by member.
MarshalGroup(w) ==
    [f \in WireFields |->
        IF f \in StringFields THEN EncodeString(w[f])
        ELSE IF f \in ListFields THEN EncodeList(w[f])
        ELSE IF w[f] THEN StrTrue ELSE StrFalse]

\* json.Unmarshal into a groupInternal.
UnmarshalGroup(j) ==
    [ok  |-> /\ \A f \in StringFields : DecodeString(j[f]).ok
             /\ \A f \in ListFields : DecodeList(j[f]).ok
             /\ j.LDAPEnabled \in {StrTrue, StrFalse},
     val |-> [f \in WireFields |->
                IF f \in StringFields THEN DecodeString(j[f]).val
                ELSE IF f \in ListFields THEN DecodeList(j[f]).val
                ELSE j[f] = StrTrue]]

----------------------------------------------------------------------------
(* The remote: the Cloudian admin API *)

Min(a, b) == IF a < b THEN a ELSE b

Resp(t, s, k, g, u) ==
    [transport |-> t, status |-> s, kind |-> k, group |-> g, list |-> u]

\* httpClient.Do returned an error: there is no response.
TransportError == Resp(TRUE, 0, "none", Nil, <<>>)

FaultStatuses == {400, 500}

\* A failing remote: no effect on its state.
FaultResponses ==
    {TransportError} \cup {Resp(FALSE, s, "empty", Nil, <<>>) : s \in FaultStatuses}

\* A 200 whose body cannot be read to its end, or is not the expected JSON.
BadBodies == {Resp(FALSE, 200, k, Nil, <<>>) : k \in {"garbage", "unreadable"}}

\* GET /user/list: up to limit+1 consecutive users, in UserID order, from the
\* user whose UserID is the offset (from the first user without an offset).
Page(users, o) ==
    LET all  == SortedSeq(users)
        from == IF o = 0 THEN all ELSE SelectSeq(all, LAMBDA x : x >= o)
    IN [i \in 1..Min(Len(from), limit + 1) |-> User(from[i])]

HonestList(o) == Resp(FALSE, 200, "users", Nil, Page(remoteUsers, o))

\* GET /group: 200 and the stored group, 204 when there is none.
HonestGetGroup ==
    IF remoteGroup = Nil THEN Resp(FALSE, 204, "empty", Nil, <<>>)
    ELSE Resp(FALSE, 200, "group", Ptr(MarshalGroup(remoteGroup[1])), <<>>)

\* DELETE /user: 200 and the user is gone, 400 when there is no such user.
HonestDeleteUser(u) ==
    Resp(FALSE, IF u \in remoteUsers THEN 200 ELSE 400, "empty", Nil, <<>>)

\* DELETE /user answered with no content, as for a user that is absent.
NoContent == Resp(FALSE, 204, "empty", Nil, <<>>)

\* PUT /user: 200 and the user exists, 400 without the group or when it exists.
CanCreateUser(u) == remoteGroup # Nil /\ u \notin remoteUsers
HonestCreateUser(u) ==
    Resp(FALSE, IF CanCreateUser(u) THEN 200 ELSE 400, "empty", Nil, <<>>)

\* DELETE /group: 200 and the group is gone, when it exists and has no member.
CanDeleteGroup == remoteGroup # Nil /\ remoteUsers = {}
HonestDeleteGroup ==
    Resp(FALSE, IF CanDeleteGroup THEN 200 ELSE 400, "empty", Nil, <<>>)

\* PUT /group creates (409 when the group exists), POST /group updates (400
\* when it does not); the remote stores the body it received.
HonestCreateGroup ==
    Resp(FALSE, IF remoteGroup = Nil THEN 200 ELSE 409, "empty", Nil, <<>>)
HonestUpdateGroup ==
    Resp(FALSE, IF remoteGroup # Nil THEN 200 ELSE 400, "empty", Nil, <<>>)

Req(m, p, a) == [m |-> m, p |-> p, a |-> a]

\* GET /user/credentials/list: 200 and the user's credentials, 204 when it has
\* none.  The credentials a user holds are left open here.
SecurityInfo(a, k) == [AccessKey |-> a, SecretKey |-> k]
CredLists ==
    {<<SecurityInfo(<<"1">>, <<"a">>)>>,
     <<SecurityInfo(<<"1">>, <<"a">>), SecurityInfo(<<"2">>, <<"b">>)>>}
HonestCredentials ==
    {Resp(FALSE, 204, "empty", Nil, <<>>)}
        \cup {Resp(FALSE, 200, "creds", Nil, l) : l \in CredLists}

----------------------------------------------------------------------------
(* The SDK client: what each operation makes of a response *)

Result(e, g, l) == [err |-> e, group |-> g, list |-> l]
NoResult == Result(ErrNil, Nil, <<>>)
NoResp == Resp(FALSE, 0, "none", Nil, <<>>)

\* ListUsers, one frame: the page is recursed on when it is longer than limit,
\* without its last element and from that element's UserID.
HasMore(users) == Len(users) > limit
\* (a slip: the extra element is kept)
KeepSentinel(retVal) == retVal
StripSentinel(retVal) == SubSeq(retVal, 1, Len(retVal) - 1)
\* (a slip: the page is asked for again)
OffsetOfFirst(users) == users[1].UserID
\* (a slip: the offset is taken from the last element that is kept)
OffsetOfLastKept(users) == users[limit].UserID
NextOffset(users) == users[limit + 1].UserID

\* ListUsers, one frame: what it returns when its recursive call has returned
\* more; the error of the call is returned and the frame's users are dropped.
\* (the earlier revision: the error is dropped and the frame's users returned)
FrameReturnsDespiteError(retVal, more) ==
    IF more.err = ErrNil THEN Result(ErrNil, Nil, retVal \o more.list)
    ELSE Result(ErrNil, Nil, retVal)
FrameReturns(retVal, more) ==
    IF more.err # ErrNil THEN Result(ErrOther, Nil, <<>>)
    ELSE Result(ErrNil, Nil, retVal \o more.list)

\* DeleteGroupRecursive: the listing's error ends it.
\* (the earlier revision: the users are deleted when the listing failed)
ListingSucceeded(err) == err = ErrNil
ListingFailed(err) == err # ErrNil

\* ListUsers, one frame: Do, ReadAll and Unmarshal each fail the call; the
\* status is not looked at.
\* (a slip: the error of Do is not looked at)
ListFailsOnBodyOnly(r) == ~r.transport /\ r.kind # "users"
ListFails(r) == r.transport \/ r.kind # "users"

\* (a slip: every 2xx status is taken for success)
DeleteUserErrAny2xx(r) ==
    IF r.transport THEN ErrOther
    ELSE IF r.status \in 200..299 THEN ErrNil ELSE ErrOther
\* (a slip: the status is not looked at, as in DeleteGroup)
DeleteUserErrAnyStatus(r) == IF r.transport THEN ErrOther ELSE ErrNil
DeleteUserErr(r) ==
    IF r.transport THEN ErrOther
    ELSE IF r.status = 200 THEN ErrNil ELSE ErrOther

\* CreateUser, DeleteGroup, CreateGroup and UpdateGroup return what closing
\* the response body returns.
CreateUserErr(r) == IF r.transport THEN ErrOther ELSE ErrNil
DeleteGroupErr(r) == IF r.transport THEN ErrOther ELSE ErrNil
CreateGroupErr(r) == IF r.transport THEN ErrOther ELSE ErrNil
UpdateGroupErr(r) == IF r.transport THEN ErrOther ELSE ErrNil

\* (a slip: 204 is not told apart from the other statuses)
GetGroupResultNo204(r) ==
    IF r.transport THEN Result(ErrOther, Nil, <<>>)
    ELSE IF r.status = 200 THEN
        IF r.kind # "group" \/ ~UnmarshalGroup(r.group[1]).ok
        THEN Result(ErrOther, Nil, <<>>)
        ELSE Result(ErrNil, Ptr(fromInternal(UnmarshalGroup(r.group[1]).val)), <<>>)
    ELSE Result(ErrOther, Nil, <<>>)
GetGroupResult(r) ==
    IF r.transport THEN Result(ErrOther, Nil, <<>>)
    ELSE IF r.status = 200 THEN
        IF r.kind # "group" \/ ~UnmarshalGroup(r.group[1]).ok
        THEN Result(ErrOther, Nil, <<>>)
        ELSE Result(ErrNil, Ptr(fromInternal(UnmarshalGroup(r.group[1]).val)), <<>>)
    ELSE IF r.status = 204 THEN Result(ErrNotFound, Nil, <<>>)
    ELSE Result(ErrOther, Nil, <<>>)

\* (a slip: 204 is not told apart from the other statuses)
GetUserCredentialsResultNo204(r) ==
    IF r.transport THEN Result(ErrOther, Nil, <<>>)
    ELSE IF r.status = 200 THEN
        IF r.kind # "creds" THEN Result(ErrOther, Nil, <<>>)
        ELSE Result(ErrNil, Nil, r.list)
    ELSE Result(ErrOther, Nil, <<>>)
GetUserCredentialsResult(r) ==
    IF r.transport THEN Result(ErrOther, Nil, <<>>)
    ELSE IF r.status = 200 THEN
        IF r.kind # "creds" THEN Result(ErrOther, Nil, <<>>)
        ELSE Result(ErrNil, Nil, r.list)
    ELSE IF r.status = 204 THEN Result(ErrNotFound, Nil, <<>>)
    ELSE Result(ErrOther, Nil, <<>>)

\* httpClient.Do: a response, and with it a body to close, unless it failed.
Opened(r) == IF r.transport THEN 0 ELSE 1
\* Of the bodies a call holds, the ones that are open after it has returned:
\* the deferred, or returned, resp.Body.Close() closes the body.
\* (a slip: the body is not closed)
BodiesLeftOpenAll(held) == held
BodiesLeftOpen(held) == 0

----------------------------------------------------------------------------
(* The SDK client: the operations *)

\* The groups a caller passes to CreateGroup and UpdateGroup.
Group(active, name, ldap) ==
    [Active |-> active, GroupID |-> StrQA, GroupName |-> name, LDAPEnabled |-> ldap,
     LDAPGroup |-> <<>>, LDAPMatchAttribute |-> <<>>, LDAPSearch |-> <<>>,
     LDAPSearchUserBase |-> <<>>, LDAPServerURL |-> <<>>, LDAPUserDNTemplate |-> <<>>]
SdkGroups == {Group(a, n, FALSE) : a \in Bools, n \in {<<>>, StrHello}}

ClientIdle ==
    /\ pc = "idle" /\ op = "" /\ offset = 0 /\ stack = <<>> /\ todo = <<>>
    /\ ret = NoResult /\ log = <<>> /\ pages = <<>> /\ resp = NoResp
    /\ faulted = FALSE /\ result = NoResult
    /\ open = 0
    /\ created = {}

PureIdle == input = <<>> /\ applied = "" /\ output = <<>>

\* No User resource is reconciled.
NoObservation == [ResourceExists |-> FALSE, ResourceUpToDate |-> FALSE]
UserIdle ==
    /\ remoteKeys = [u \in UserIDs |-> {}]
    /\ cr = Nil
    /\ observation = NoObservation
    /\ client = Nil
    /\ procs = <<>>

Init ==
    /\ remoteGroup \in {Nil} \cup {Ptr(toInternal(g)) : g \in SdkGroups}
    /\ remoteUsers \in {1..n : n \in 0..MaxUsers}
    /\ remoteGroup = Nil => remoteUsers = {}
    /\ ClientIdle
    /\ PureIdle
    /\ UserIdle

\* An operation of one request returns.
Returns(name, request, r, fault, res) ==
    /\ op' = name
    /\ pc' = "done"
    /\ log' = <<request>>
    /\ resp' = r
    /\ faulted' = fault
    /\ result' = res
    /\ open' = open + BodiesLeftOpen(Opened(r))
    /\ UNCHANGED <<offset, stack, ret, todo, pages, pureVars, created, concVars, userVars>>

GetGroup ==
    /\ pc = "idle"
    /\ \E r \in {HonestGetGroup} \cup FaultResponses \cup BadBodies :
        Returns("GetGroup", Req("GET", "/group", 0), r, r # HonestGetGroup,
                GetGroupResult(r))
    /\ UNCHANGED <<remoteUsers, remoteGroup>>

GetUserCredentials ==
    /\ pc = "idle"
    /\ \E u \in UserIDs, r \in HonestCredentials \cup FaultResponses \cup BadBodies :
        Returns("GetUserCredentials", Req("GET", "/user/credentials/list", u), r,
                r \notin HonestCredentials, GetUserCredentialsResult(r))
    /\ UNCHANGED <<remoteUsers, remoteGroup>>

DeleteUser ==
    /\ pc = "idle"
    /\ \E u \in UserIDs : \E r \in {HonestDeleteUser(u), NoContent} \cup FaultResponses :
        /\ Returns("DeleteUser", Req("DELETE", "/user", u), r, r # HonestDeleteUser(u),
                   Result(DeleteUserErr(r), Nil, <<>>))
        /\ remoteUsers' = IF r = HonestDeleteUser(u) THEN remoteUsers \ {u} ELSE remoteUsers
    /\ UNCHANGED remoteGroup

CreateUser ==
    /\ pc = "idle"
    /\ \E u \in UserIDs : \E r \in {HonestCreateUser(u)} \cup FaultResponses :
        /\ Returns("CreateUser", Req("PUT", "/user", u), r, r # HonestCreateUser(u),
                   Result(CreateUserErr(r), Nil, <<>>))
        /\ remoteUsers' = IF r = HonestCreateUser(u) /\ CanCreateUser(u)
                          THEN remoteUsers \cup {u} ELSE remoteUsers
    /\ UNCHANGED remoteGroup

DeleteGroup ==
    /\ pc = "idle"
    /\ \E r \in {HonestDeleteGroup} \cup FaultResponses :
        /\ Returns("DeleteGroup", Req("DELETE", "/group", 0), r, r # HonestDeleteGroup,
                   Result(DeleteGroupErr(r), Nil, <<>>))
        /\ remoteGroup' = IF r = HonestDeleteGroup /\ CanDeleteGroup THEN Nil ELSE remoteGroup
    /\ UNCHANGED remoteUsers

\* The remote reads the body it is sent and stores it.
Stored(body) == Ptr(UnmarshalGroup(body).val)

CreateGroup ==
    /\ pc = "idle"
    /\ \E g \in SdkGroups, r \in {HonestCreateGroup} \cup FaultResponses :
        /\ Returns("CreateGroup", Req("PUT", "/group", 0), r, r # HonestCreateGroup,
                   Result(CreateGroupErr(r), Nil, <<>>))
        /\ remoteGroup' = IF r = HonestCreateGroup /\ remoteGroup = Nil
                          THEN Stored(MarshalGroup(toInternal(g))) ELSE remoteGroup
    /\ UNCHANGED remoteUsers

UpdateGroup ==
    /\ pc = "idle"
    /\ \E g \in SdkGroups, r \in {HonestUpdateGroup} \cup FaultResponses :
        /\ Returns("UpdateGroup", Req("POST", "/group", 0), r, r # HonestUpdateGroup,
                   Result(UpdateGroupErr(r), Nil, <<>>))
        /\ remoteGroup' = IF r = HonestUpdateGroup /\ remoteGroup # Nil
                          THEN Stored(MarshalGroup(toInternal(g))) ELSE remoteGroup
    /\ UNCHANGED remoteUsers

\* ListUsers(ctx, groupId, nil) is called.
CallListUsers ==
    /\ pc = "idle"
    /\ op' = "ListUsers"
    /\ pc' = "list_req"
    /\ UNCHANGED <<remoteUsers, remoteGroup, offset, stack, ret, todo, log, pages, resp,
                   faulted, result, pureVars, created, concVars, userVars, open>>

\* DeleteGroupRecursive(ctx, groupId) is called and calls ListUsers(ctx, groupId, nil).
CallDeleteGroupRecursive ==
    /\ pc = "idle"
    /\ op' = "DeleteGroupRecursive"
    /\ pc' = "list_req"
    /\ UNCHANGED <<remoteUsers, remoteGroup, offset, stack, ret, todo, log, pages, resp,
                   faulted, result, pureVars, created, concVars, userVars, open>>

\* One frame of ListUsers: the request for a page, and what the frame does with
\* the response up to its recursive call or its return.
ListUsersRequest ==
    /\ pc = "list_req"
    /\ \E r \in {HonestList(offset)} \cup FaultResponses \cup BadBodies :
        /\ log' = Append(log, Req("GET", "/user/list", offset))
        /\ resp' = r
        /\ faulted' = (faulted \/ r # HonestList(offset))
        /\ IF ListFails(r)
           THEN /\ ret' = Result(ErrOther, Nil, <<>>)
                /\ pc' = "list_ret"
                /\ open' = open + BodiesLeftOpen(Opened(r))
                /\ UNCHANGED <<stack, offset, pages>>
           ELSE /\ pages' = Append(pages, r.list)
                /\ IF HasMore(r.list)
                   THEN /\ stack' = Append(stack, StripSentinel(r.list))
                        /\ offset' = NextOffset(r.list)
                        /\ open' = open + Opened(r)
                        /\ UNCHANGED <<pc, ret>>
                   ELSE /\ ret' = Result(ErrNil, Nil, r.list)
                        /\ pc' = "list_ret"
                        /\ open' = open + BodiesLeftOpen(Opened(r))
                        /\ UNCHANGED <<stack, offset>>
    /\ UNCHANGED <<remoteUsers, remoteGroup, op, todo, result, pureVars, created, concVars,
                   userVars>>

\* The recursive call returns to the frame that made it: the frame returns the
\* error, or its own users followed by the ones it was returned.
ListUsersReturn ==
    /\ pc = "list_ret"
    /\ stack # <<>>
    /\ stack' = SubSeq(stack, 1, Len(stack) - 1)
    /\ ret' = FrameReturns(stack[Len(stack)], ret)
    /\ open' = open - 1 + BodiesLeftOpen(1)
    /\ UNCHANGED <<remoteUsers, remoteGroup, pc, op, offset, todo, log, pages, resp,
                   faulted, result, pureVars, created, concVars, userVars>>

\* The outermost ListUsers returns to its caller.
ListUsersDone ==
    /\ pc = "list_ret"
    /\ stack = <<>>
    /\ IF op = "ListUsers" \/ ListingFailed(ret.err)
       THEN /\ result' = IF ret.err # ErrNil THEN Result(ErrOther, Nil, <<>>) ELSE ret
            /\ pc' = "done"
            /\ todo' = todo
       ELSE /\ todo' = ret.list
            /\ pc' = "del_users"
            /\ result' = result
    /\ UNCHANGED <<remoteUsers, remoteGroup, op, offset, stack, ret, log, pages, resp,
                   faulted, pureVars, created, concVars, userVars, open>>

\* DeleteGroupRecursive: one turn of the loop over the listed users.
RecursiveDeleteUser ==
    /\ pc = "del_users"
    /\ todo # <<>>
    /\ LET u == Head(todo).UserID
       IN \E r \in {HonestDeleteUser(u)} \cup FaultResponses :
            /\ log' = Append(log, Req("DELETE", "/user", u))
            /\ resp' = r
            /\ faulted' = (faulted \/ r # HonestDeleteUser(u))
            /\ open' = open + BodiesLeftOpen(Opened(r))
            /\ remoteUsers' = IF r = HonestDeleteUser(u) THEN remoteUsers \ {u}
                              ELSE remoteUsers
            /\ IF DeleteUserErr(r) # ErrNil
               THEN /\ result' = Result(ErrOther, Nil, <<>>)
                    /\ pc' = "done"
                    /\ todo' = todo
               ELSE /\ todo' = Tail(todo)
                    /\ UNCHANGED <<result, pc>>
    /\ UNCHANGED <<remoteGroup, op, offset, stack, ret, pages, pureVars, created, concVars,
                   userVars>>

\* DeleteGroupRecursive: the loop is over, DeleteGroup is called and returned.
RecursiveDeleteGroup ==
    /\ pc = "del_users"
    /\ todo = <<>>
    /\ \E r \in {HonestDeleteGroup} \cup FaultResponses :
        /\ log' = Append(log, Req("DELETE", "/group", 0))
        /\ resp' = r
        /\ faulted' = (faulted \/ r # HonestDeleteGroup)
        /\ open' = open + BodiesLeftOpen(Opened(r))
        /\ remoteGroup' = IF r = HonestDeleteGroup /\ CanDeleteGroup THEN Nil
                          ELSE remoteGroup
        /\ result' = Result(DeleteGroupErr(r), Nil, <<>>)
        /\ pc' = "done"
    /\ UNCHANGED <<remoteUsers, op, offset, stack, ret, todo, pages, pureVars, created,
                   concVars, userVars>>

\* The caller takes the result; the client is ready for the next operation.
Return ==
    /\ pc = "done"
    /\ pc' = "idle" /\ op' = "" /\ offset' = 0 /\ stack' = <<>> /\ todo' = <<>>
    /\ ret' = NoResult /\ log' = <<>> /\ pages' = <<>> /\ resp' = NoResp
    /\ faulted' = FALSE /\ result' = NoResult
    /\ created' = {}
    /\ UNCHANGED <<remoteUsers, remoteGroup, pureVars, concVars, userVars, open>>

Next ==
    \/ GetGroup
    \/ GetUserCredentials
    \/ DeleteUser
    \/ CreateUser
    \/ DeleteGroup
    \/ CreateGroup
    \/ UpdateGroup
    \/ CallListUsers
    \/ CallDeleteGroupRecursive
    \/ ListUsersRequest
    \/ ListUsersReturn
    \/ ListUsersDone
    \/ RecursiveDeleteUser
    \/ RecursiveDeleteGroup
    \/ Return

Spec == Init /\ [][Next]_vars

----------------------------------------------------------------------------
(* Properties of the SDK client *)

RemoteList == [i \in 1..Cardinality(remoteUsers) |-> User(SortedSeq(remoteUsers)[i])]
IsListRequest(q) == q.m = "GET" /\ q.p = "/user/list"
IsDeleteUser(q) == q.m = "DELETE" /\ q.p = "/user"
IsDeleteGroup(q) == q.m = "DELETE" /\ q.p = "/group"
Last(q) == q[Len(q)]

\* C1: ListUsers(groupId, nil) against a remote that serves pages of up to
\* limit+1 consecutive users from the offset returns, with a nil error, exactly
\* the remote's users in the remote's order: none omitted, none twice, no
\* sentinel left.
C1_ListUsersReturnsAllUsers ==
    (op = "ListUsers" /\ pc = "done" /\ ~faulted)
        => /\ result.err = ErrNil
           /\ result.list = RemoteList
           /\ Len(log) = Len(pages)
           /\ \A k \in 1..Len(log) : IsListRequest(log[k])

\* A listing of three pages or more has returned.
C1_Witness ==
    /\ op = "ListUsers" /\ pc = "done" /\ ~faulted
    /\ Len(pages) >= 3
    /\ Len(result.list) = Cardinality(remoteUsers)
    /\ Len(pages[Len(pages)]) = limit

\* C2 as stated: after a page of more than limit entries the next request's
\* offset is the UserID of the last entry that is kept (the last real one).
C2_OffsetIsLastRealEntry ==
    \A k \in 1..Len(pages) :
        (HasMore(pages[k]) /\ k < Len(log))
            => log[k + 1] = Req("GET", "/user/list", pages[k][Len(pages[k]) - 1].UserID)

\* C2, amended: after a page of more than limit entries ListUsers keeps the
\* page without its last entry, the sentinel, and the next request, which it
\* does issue, carries the UserID of that sentinel as its offset.
C2_OffsetIsSentinel ==
    \A k \in 1..Len(pages) :
        HasMore(pages[k]) =>
            LET sentinel == Last(pages[k])
            IN /\ k < Len(log) => log[k + 1] = Req("GET", "/user/list", sentinel.UserID)
               /\ k = Len(log) => pc = "list_req" /\ offset = sentinel.UserID
               /\ k <= Len(stack) =>
                    /\ Len(stack[k]) = Len(pages[k]) - 1
                    /\ \A i \in 1..Len(stack[k]) : stack[k][i] = pages[k][i]

\* A second request has followed a page of more than limit entries.
C2_Witness ==
    /\ Len(pages) >= 1 /\ HasMore(pages[1]) /\ Len(log) >= 2
    /\ log[2].a = pages[1][limit + 1].UserID

DeleteUserRequests == SelectSeq(log, IsDeleteUser)
DeleteGroupRequests == SelectSeq(log, IsDeleteGroup)
\* DeleteUser fails on a transport error and on every status but 200.
DeleteUserFailed(r) == r.transport \/ r.status # 200

\* C3: DeleteGroupRecursive deletes the listed users in list order and only
\* then the group; when deleting a user fails, it returns the error and issues
\* no further DeleteUser and no DeleteGroup.
C3_DeleteGroupRecursiveOrder ==
    (op = "DeleteGroupRecursive" /\ stack = <<>> /\ pc \in {"del_users", "done"}
            /\ ret.err = ErrNil)
        => /\ Len(DeleteUserRequests) <= Len(ret.list)
           /\ \A i \in 1..Len(DeleteUserRequests) :
                DeleteUserRequests[i].a = ret.list[i].UserID
           /\ Len(DeleteGroupRequests) <= 1
           /\ \A k \in 1..Len(log) :
                /\ IsDeleteUser(log[k]) => \A j \in 1..k : ~IsDeleteGroup(log[j])
                /\ IsDeleteGroup(log[k]) =>
                     k = Len(log) /\ Len(DeleteUserRequests) = Len(ret.list)
                        /\ pc = "done"
           /\ (log # <<>> /\ IsDeleteUser(Last(log)) /\ DeleteUserFailed(resp))
                => pc = "done" /\ result.err = ErrOther /\ DeleteGroupRequests = <<>>
           /\ (log # <<>> /\ IsDeleteUser(Last(log)) /\ ~DeleteUserFailed(resp))
                => pc = "del_users"
                     /\ Len(todo) = Len(ret.list) - Len(DeleteUserRequests)

\* The second DeleteUser failed while a third user was still to delete.
C3_Witness ==
    /\ op = "DeleteGroupRecursive" /\ pc = "done" /\ ret.err = ErrNil
    /\ Len(DeleteUserRequests) = 2 /\ Len(ret.list) >= 3
    /\ IsDeleteUser(Last(log)) /\ DeleteUserFailed(resp)
    /\ result.err = ErrOther

\* C4: GetGroup maps the status totally: 200 gives the group of the body,
\* translated field by field, and a nil error; 204 gives no group and
\* ErrNotFound; every other status gives no group and an error that is not
\* ErrNotFound.
C4_GetGroupStatusMapping ==
    (op = "GetGroup" /\ pc = "done" /\ ~resp.transport)
        => /\ (resp.status = 200 /\ resp.kind = "group")
                => /\ result.err = ErrNil
                   /\ result.group # Nil
                   /\ result.group[1].Active = (remoteGroup[1].Active = StrTrue)
                   /\ \A f \in (StringFields \ {"Active"}) \cup {"LDAPEnabled"} :
                        result.group[1][f] = remoteGroup[1][f]
                   /\ DOMAIN result.group[1] = StringFields \cup {"LDAPEnabled"}
           /\ resp.status = 204 => result.group = Nil /\ result.err = ErrNotFound
           /\ resp.status \notin {200, 204} => result.group = Nil /\ result.err = ErrOther

\* GetGroup returned ErrNotFound for a 204.
C4_Witness ==
    /\ op = "GetGroup" /\ pc = "done" /\ ~resp.transport
    /\ resp.status = 204 /\ result.err = ErrNotFound

CheckedOps == {"CreateGroup", "UpdateGroup", "DeleteGroup", "CreateUser", "DeleteUser",
               "ListUsers", "GetGroup", "GetUserCredentials"}

\* C5: no SDK operation returns a nil error when the remote answered with a
\* status that is not 2xx.
C5_ErrorStatusIsAnError ==
    (op \in CheckedOps /\ pc = "done" /\ ~resp.transport /\ resp.kind # "none"
            /\ resp.status \notin 200..299)
        => result.err # ErrNil

C22_DeleteUserOnly200 ==
    (op = "DeleteUser" /\ pc = "done")
        => (result.err = ErrNil <=> (~resp.transport /\ resp.status = 200))

\* DeleteUser returned an error for a 204.
C22_Witness ==
    /\ op = "DeleteUser" /\ pc = "done" /\ ~resp.transport
    /\ resp.status = 204 /\ result.err = ErrOther

\* C14: when an SDK operation has returned, on success and on every error
\* path, no response body it obtained is open; while ListUsers runs, the open
\* bodies are those of the frames that wait for their recursive call, and
\* each is closed when its frame returns.
C14_BodiesClosedOnReturn ==
    /\ pc \in {"idle", "done", "del_users"} => open = 0
    /\ pc \in {"list_req", "list_ret"} => open = Len(stack)

\* ListUsers has returned the error of its third page, whose body did not
\* parse, with the bodies of all three pages closed.
C14_Witness ==
    /\ op = "ListUsers" /\ pc = "done"
    /\ Len(log) = 3 /\ Len(pages) = 2
    /\ ~resp.transport /\ ListFails(resp)
    /\ result.err = ErrOther
    /\ open = 0

NoRequestTwice(q) == \A i \in 1..Len(q) : \A j \in 1..Len(q) : i < j => q[i] # q[j]

\* C15: the SDK never retries.  After a request that met a transport error
\* (a cancelled or timed out context included) the operation issues no
\* further request and returns a non-nil error; and no operation sends a
\* request twice: ListUsers one request per page, DeleteGroupRecursive one
\* DeleteUser per listed user and at most one DeleteGroup.
C15_NoRetry ==
    [][/\ resp.transport => (log' = log \/ log' = <<>>)
       /\ resp'.transport
            => /\ pc' \in {"list_ret", "done"}
               /\ pc' = "list_ret" => ret'.err # ErrNil
               /\ pc' = "done" => result'.err # ErrNil
       /\ NoRequestTwice(log')
       /\ op' \in {"ListUsers", "DeleteGroupRecursive"}
            => /\ Len(SelectSeq(log', IsListRequest)) <= Len(pages') + 1
               /\ Len(SelectSeq(log', IsDeleteUser)) <= Len(ret'.list)
               /\ Len(SelectSeq(log', IsDeleteGroup)) <= 1
       /\ op' \notin {"", "ListUsers", "DeleteGroupRecursive"} => Len(log') = 1]_vars

\* DeleteGroupRecursive has returned the transport error of its second
\* DeleteUser: one listing of two pages, two DeleteUser, no DeleteGroup.
C15_Witness ==
    /\ op = "DeleteGroupRecursive" /\ pc = "done"
    /\ resp.transport /\ result.err = ErrOther
    /\ Len(pages) = 2 /\ Len(log) = 4
    /\ IsDeleteUser(log[3]) /\ IsDeleteUser(log[4]) /\ log[3] # log[4]

\* The users of the pages received, each page that has more without its last.
RECURSIVE KeptOf(_)
KeptOf(ps) ==
    IF ps = <<>> THEN <<>>
    ELSE (IF HasMore(Head(ps)) THEN SubSeq(Head(ps), 1, Len(Head(ps)) - 1) ELSE Head(ps))
            \o KeptOf(Tail(ps))

\* C17: when the request for a page fails inside ListUsers (transport error,
\* unreadable body, body that is no user list), every frame returns a non-nil
\* error and a nil list, and so does ListUsers; a nil error is returned only
\* with the users of all the pages, every request having succeeded.
C17_FailedPageFailsListUsers ==
    op = "ListUsers" =>
        /\ (pc \in {"list_ret", "done"} /\ Len(log) > Len(pages))
                => ret.err # ErrNil /\ ret.list = <<>>
        /\ (pc = "done" /\ Len(log) > Len(pages))
                => result.err # ErrNil /\ result.list = <<>>
        /\ (pc = "done" /\ result.err = ErrNil)
                => Len(log) = Len(pages) /\ result.list = KeptOf(pages)

\* ListUsers has returned an error and no user after the body of its second
\* page could not be read.
C17_Witness ==
    /\ op = "ListUsers" /\ pc = "done"
    /\ Len(log) = 2 /\ Len(pages) = 1 /\ HasMore(pages[1])
    /\ resp.kind = "unreadable"
    /\ result.err = ErrOther /\ result.list = <<>>

\* C19: DeleteGroupRecursive whose listing failed returns an error and has
\* issued no DeleteUser and no DeleteGroup; when the listing succeeded and
\* every DeleteUser succeeded, it has issued DeleteGroup exactly once, last.
C19_ListingErrorStopsRecursiveDelete ==
    (op = "DeleteGroupRecursive" /\ pc = "done")
        => /\ ret.err # ErrNil
                => /\ result.err # ErrNil
                   /\ DeleteUserRequests = <<>>
                   /\ DeleteGroupRequests = <<>>
                   /\ \A k \in 1..Len(log) : IsListRequest(log[k])
           /\ (/\ ret.err = ErrNil
               /\ Len(DeleteUserRequests) = Len(ret.list)
               /\ ~(IsDeleteUser(Last(log)) /\ DeleteUserFailed(resp)))
                => /\ Len(DeleteGroupRequests) = 1
                   /\ IsDeleteGroup(Last(log))

\* DeleteGroupRecursive has returned the error of the listing, whose second
\* page failed, after two list requests and nothing else.
C19_Witness ==
    /\ op = "DeleteGroupRecursive" /\ pc = "done"
    /\ ret.err # ErrNil /\ result.err = ErrOther
    /\ Len(log) = 2 /\ Len(pages) = 1
    /\ IsListRequest(log[1]) /\ IsListRequest(log[2])

\* ListUsers on its own, against a remote that no other operation changes:
\* every call is made in the end to return by the scheduler and by the
\* deadline of the context, under which httpClient.Do returns.
NextListUsers ==
    \/ CallListUsers
    \/ ListUsersRequest
    \/ ListUsersReturn
    \/ ListUsersDone
    \/ Return

SpecListUsers ==
    /\ Init
    /\ [][NextListUsers]_vars
    /\ WF_vars(ListUsersRequest) /\ WF_vars(ListUsersReturn) /\ WF_vars(ListUsersDone)

Max(a, b) == IF a > b THEN a ELSE b
\* max(1, ceil(n / limit))
PagesOf(n) == Max(1, (n + limit - 1) \div limit)

\* C18: ListUsers terminates.  It issues a further request only after a page
\* of more than limit entries and returns after the first page of at most
\* limit entries, so that it never issues more than max(1, ceil(N/limit))
\* requests for the N users of the remote, and exactly that many when no
\* request fails.
C18_ListUsersTerminates ==
    /\ [](op = "ListUsers" =>
            /\ \A k \in 1..Len(pages) : k < Len(log) => HasMore(pages[k])
            /\ \A k \in 1..Len(pages) : HasMore(pages[k]) =>
                    (k < Len(log) \/ (pc = "list_req" /\ k = Len(log)))
            /\ Len(log) <= PagesOf(Cardinality(remoteUsers))
            /\ (pc = "done" /\ ~faulted) => Len(log) = PagesOf(Cardinality(remoteUsers)))
    /\ (op = "ListUsers") ~> (op = "ListUsers" /\ pc = "done")

\* ListUsers has returned 2 * limit + 1 users after three requests.
C18_Witness ==
    /\ op = "ListUsers" /\ pc = "done" /\ ~faulted
    /\ Cardinality(remoteUsers) = 2 * limit + 1
    /\ Len(log) = 3
    /\ Len(result.list) = 2 * limit + 1

----------------------------------------------------------------------------
(* Secret and SecurityInfo *)

\* The longest secret the helpers are applied to.
MaxSecretLen == 2

RECURSIVE StringsOver(_, _)
\* The strings over the characters cs of length up to n.
StringsOver(cs, n) ==
    IF n = 0 THEN {<<>>}
    ELSE LET shorter == StringsOver(cs, n - 1)
         IN shorter \cup {<<c>> \o t : c \in cs, t \in {x \in shorter : Len(x) = n - 1}}

StrRedacted == <<"*", "*", "*", "*", "*", "*", "*", "*">>

\* (a slip: the default rendering is the value)
StringShowsValue(s) == s
\* secret.go: type Secret string.
String(s) == StrRedacted
Reveal(s) == s

\* The struct revision of Secret, with pointer receivers.
StructString(p) == StrRedacted
StructReveal(p) == IF p # Nil THEN p[1].value ELSE <<>>

\* fmt's %v of a SecurityInfo: each field is rendered by its String method.
FormatSecurityInfo(si) ==
    <<"{">> \o String(si.AccessKey) \o <<" ">> \o String(si.SecretKey) \o <<"}">>

\* json.Marshal of a SecurityInfo: Secret has no MarshalJSON and is of kind
\* string, so each field is written as a JSON string.
MarshalSecurityInfo(si) ==
    [accessKey |-> EncodeString(si.AccessKey), secretKey |-> EncodeString(si.SecretKey)]

\* The struct revision in a SecurityInfo: the fields are not addressable, so
\* fmt finds no String method on them and prints the struct, and json.Marshal
\* finds no exported field and writes {}.
FormatSecurityInfoStruct(si) ==
    <<"{", "{">> \o si.AccessKey \o <<"}", " ", "{">> \o si.SecretKey \o <<"}", "}">>
MarshalSecurityInfoStruct(si) == [accessKey |-> <<"{", "}">>, secretKey |-> <<"{", "}">>]

SecretValues == StringsOver({"n", "quote"}, MaxSecretLen)
SecurityInfos == {SecurityInfo(a, k) : a \in {<<"1">>, <<"2">>}, k \in SecretValues}

SdkUnused ==
    /\ remoteUsers = {} /\ remoteGroup = Nil
    /\ ClientIdle
    /\ UserIdle

\* As SdkUnused, for the specification that uses client and procs.
SdkUnusedButClient ==
    /\ remoteUsers = {} /\ remoteGroup = Nil
    /\ ClientIdle
    /\ PureIdle
    /\ remoteKeys = [u \in UserIDs |-> {}]
    /\ cr = Nil
    /\ observation = NoObservation

InitSecret ==
    /\ SdkUnused
    /\ input \in [a : SecurityInfos, b : SecurityInfos, nilptr : Bools]
    /\ applied = ""
    /\ output = <<>>

Applies(name, out) ==
    /\ applied = ""
    /\ applied' = name
    /\ output' = out
    /\ UNCHANGED <<input, sdkVars, userVars, concVars, created>>

SecretPtr == IF input.nilptr THEN Nil ELSE Ptr([value |-> input.a.SecretKey])

ApplyString == Applies("String", String(input.a.SecretKey))
ApplyReveal == Applies("Reveal", Reveal(input.a.SecretKey))
ApplyStructString == Applies("StructString", StructString(SecretPtr))
ApplyStructReveal == Applies("StructReveal", StructReveal(SecretPtr))
ApplyFormat ==
    Applies("Format", [a |-> FormatSecurityInfo(input.a), b |-> FormatSecurityInfo(input.b)])
ApplyMarshal ==
    Applies("Marshal", [a |-> MarshalSecurityInfo(input.a), b |-> MarshalSecurityInfo(input.b)])

ApplyStructFormat ==
    Applies("StructFormat", [a |-> FormatSecurityInfoStruct(input.a),
                             b |-> FormatSecurityInfoStruct(input.b)])
ApplyStructMarshal ==
    Applies("StructMarshal", [a |-> MarshalSecurityInfoStruct(input.a),
                              b |-> MarshalSecurityInfoStruct(input.b)])

NextSecret ==
    \/ ApplyString
    \/ ApplyReveal
    \/ ApplyStructString
    \/ ApplyStructReveal
    \/ ApplyFormat
    \/ ApplyMarshal
    \/ ApplyStructFormat
    \/ ApplyStructMarshal

SpecSecret == InitSecret /\ [][NextSecret]_vars

\* C6: for every Secret, the empty one included, String() is "********" and
\* Reveal() is the string the Secret was built from.
C6_StringRedactsRevealReturns ==
    /\ applied = "String" => output = <<"*", "*", "*", "*", "*", "*", "*", "*">>
    /\ applied = "Reveal" => output = input.a.SecretKey
    /\ (applied = "StructString" /\ ~input.nilptr)
            => output = <<"*", "*", "*", "*", "*", "*", "*", "*">>
    /\ (applied = "StructReveal" /\ ~input.nilptr) => output = input.a.SecretKey

\* String() was applied to the empty Secret.
C6_Witness ==
    /\ applied = "String" /\ input.a.SecretKey = <<>>
    /\ output = <<"*", "*", "*", "*", "*", "*", "*", "*">>

\* C7: the default renderings of two SecurityInfo values, which can differ
\* only in the contents of their Secrets, are the same.
C7_DefaultRenderingsHideSecrets ==
    applied \in {"Format", "Marshal", "StructFormat", "StructMarshal"}
        => output.a = output.b

----------------------------------------------------------------------------
(* Secret from JSON *)

\* A JSON document: a string, given by the text between its quotes, or a
\* value of another kind.  A malformed document is a string with an escape
\* that JSON does not have.
Json(kind, text) == [kind |-> kind, text |-> text]
OtherJsonKinds == {"null", "number", "true", "object", "array"}
SecretChars == {"n", "quote", "bslash", "nl", "lt", "uFFFD"}
JsonDocuments ==
    {Json("string", EncodeString(v)) : v \in StringsOver(SecretChars, MaxSecretLen)}
        \cup {Json(k, <<>>) : k \in OtherJsonKinds}
        \cup {Json("malformed", <<"bslash", "x">>)}

\* json.Unmarshal(data, &str) with str == "": a JSON string is decoded into
\* str, null leaves str as it is and is no error, every other document is an
\* error.
UnmarshalString(data) ==
    IF data.kind = "string" THEN DecodeString(data.text)
    ELSE IF data.kind = "null" THEN [ok |-> TRUE, val |-> <<>>]
    ELSE [ok |-> FALSE, val |-> <<>>]

\* (a slip: the text of the document is stored, not the string it denotes)
UnmarshalJSONUndecoded(sec, data) ==
    IF ~UnmarshalString(data).ok THEN [err |-> TRUE, secret |-> sec]
    ELSE [err |-> FALSE, secret |-> [value |-> <<"quote">> \o data.text \o <<"quote">>]]
\* The struct revision: (*Secret).UnmarshalJSON.
UnmarshalJSON(sec, data) ==
    LET r == UnmarshalString(data)
    IN IF ~r.ok THEN [err |-> TRUE, secret |-> sec]
       ELSE [err |-> FALSE, secret |-> [value |-> r.val]]

\* secret.go: type Secret string has no UnmarshalJSON, and json.Unmarshal
\* decodes into it as into a string: null leaves it as it is.
UnmarshalSecret(sec, data) ==
    IF data.kind = "string" /\ DecodeString(data.text).ok
    THEN [err |-> FALSE, secret |-> DecodeString(data.text).val]
    ELSE IF data.kind = "null" THEN [err |-> FALSE, secret |-> sec]
    ELSE [err |-> TRUE, secret |-> sec]

\* The Secret that is unmarshalled into holds a value or none.
InitUnmarshal ==
    /\ SdkUnused
    /\ \E data \in JsonDocuments, before \in {<<>>, <<"n">>} :
        input = [data |-> data, before |-> before]
    /\ applied = ""
    /\ output = <<>>

\* s.UnmarshalJSON(data), then s.Reveal() and s.String().
ApplyUnmarshalJSON ==
    LET r == UnmarshalJSON([value |-> input.before], input.data)
    IN Applies("UnmarshalJSON",
               [err |-> r.err, Reveal |-> StructReveal(Ptr(r.secret)),
                String |-> StructString(Ptr(r.secret))])

\* json.Unmarshal(data, &s), then s.Reveal() and s.String().
ApplyUnmarshalSecret ==
    LET r == UnmarshalSecret(input.before, input.data)
    IN Applies("UnmarshalSecret",
               [err |-> r.err, Reveal |-> Reveal(r.secret), String |-> String(r.secret)])

NextUnmarshal ==
    \/ ApplyUnmarshalJSON
    \/ ApplyUnmarshalSecret

SpecUnmarshal == InitUnmarshal /\ [][NextUnmarshal]_vars

RECURSIVE Denoted(_)
\* The string a well-formed JSON string denotes, escape by escape.
Denoted(t) ==
    IF t = <<>> THEN <<>>
    ELSE IF Head(t) # "bslash" THEN <<Head(t)>> \o Denoted(Tail(t))
    ELSE IF t[2] = "u" THEN <<"lt">> \o Denoted(SubSeq(t, 7, Len(t)))
    ELSE <<IF t[2] = "n" THEN "nl" ELSE t[2]>> \o Denoted(SubSeq(t, 3, Len(t)))

Unmarshalled == applied \in {"UnmarshalJSON", "UnmarshalSecret"}

\* C24 as stated: unmarshalling a JSON string v into a Secret stores v
\* unredacted, so that Reveal() returns v while String() returns "********";
\* unmarshalling JSON that is not a string returns an error and does not set
\* the Secret.
C24_UnmarshalStoresStringOnly ==
    /\ (Unmarshalled /\ input.data.kind = "string")
            => /\ ~output.err
               /\ output.Reveal = Denoted(input.data.text)
               /\ output.String = <<"*", "*", "*", "*", "*", "*", "*", "*">>
    /\ (Unmarshalled /\ input.data.kind # "string")
            => output.err /\ output.Reveal = input.before

\* C24, amended: unmarshalling a JSON string v into a Secret stores v
\* unredacted, so that Reveal() returns v while String() returns "********";
\* unmarshalling JSON that is neither a string nor null returns an error and
\* does not set the Secret; unmarshalling null returns no error, and
\* UnmarshalJSON then sets the Secret to the empty string while the string
\* type is left as it was.
C24_UnmarshalStoresStringNullIsNoError ==
    /\ (Unmarshalled /\ input.data.kind = "string")
            => /\ ~output.err
               /\ output.Reveal = Denoted(input.data.text)
               /\ output.String = <<"*", "*", "*", "*", "*", "*", "*", "*">>
    /\ (Unmarshalled /\ input.data.kind \notin {"string", "null"})
            => output.err /\ output.Reveal = input.before
    /\ (Unmarshalled /\ input.data.kind = "null") => ~output.err
    /\ (applied = "UnmarshalJSON" /\ input.data.kind = "null") => output.Reveal = <<>>
    /\ (applied = "UnmarshalSecret" /\ input.data.kind = "null")
            => output.Reveal = input.before

\* UnmarshalJSON was applied, to a Secret that held a value, to a JSON string
\* with an escaped quote.
C24_Witness ==
    /\ applied = "UnmarshalJSON" /\ input.before # <<>>
    /\ input.data.kind = "string" /\ Len(input.data.text) = 2 * MaxSecretLen
    /\ ~output.err /\ output.Reveal = [i \in 1..MaxSecretLen |-> "quote"]
    /\ output.String = <<"*", "*", "*", "*", "*", "*", "*", "*">>

----------------------------------------------------------------------------
(* Group round trips *)

\* The longest string a Group field is given.
MaxStrLen == 2

\* A letter, the characters encoding/json escapes, a byte that is not valid
\* UTF-8 and the replacement rune.
JsonChars == {"n", "quote", "bslash", "lt", "nl", "xFF", "uFFFD"}
JsonStrings == StringsOver(JsonChars, MaxStrLen)

GroupStringFields == StringFields \ {"Active"}

\* A mark of its own for every field.
FieldMark(f) ==
    CASE f = "GroupID" -> StrQA
      [] f = "GroupName" -> StrHello
      [] f = "LDAPGroup" -> <<"g">>
      [] f = "LDAPMatchAttribute" -> <<"m">>
      [] f = "LDAPSearch" -> <<"s">>
      [] f = "LDAPSearchUserBase" -> <<"b">>
      [] f = "LDAPServerURL" -> <<"l">>
      [] f = "LDAPUserDNTemplate" -> <<"d">>

\* The Group whose field f is s and whose other string fields are empty or
\* carry their marks.
GroupWith(active, ldap, f, str, marked) ==
    [x \in GroupStringFields \cup {"Active", "LDAPEnabled"} |->
        IF x = "Active" THEN active
        ELSE IF x = "LDAPEnabled" THEN ldap
        ELSE IF x = f THEN str
        ELSE IF marked THEN FieldMark(x) ELSE <<>>]

EndpointLists == {Nil, Ptr(<<>>), Ptr(<<StrALL>>)}

InitGroup ==
    /\ SdkUnused
    /\ \E active \in Bools, ldap \in Bools, f \in GroupStringFields,
          str \in JsonStrings, marked \in Bools, l \in EndpointLists :
        input = [g |-> GroupWith(active, ldap, f, str, marked), endpoints |-> l]
    /\ applied = ""
    /\ output = <<>>

\* The wire value that is marshalled: the translated Group, with the endpoint
\* lists a remote may hold.
InputWire ==
    [toInternal(input.g) EXCEPT !.S3EndpointsHTTP = input.endpoints,
                                !.S3EndpointsHTTPS = input.endpoints,
                                !.S3WebSiteEndpoints = input.endpoints]

ApplyToFromInternal == Applies("ToFromInternal", fromInternal(toInternal(input.g)))
ApplyMarshalUnmarshal == Applies("MarshalUnmarshal", UnmarshalGroup(MarshalGroup(InputWire)))

NextGroup ==
    \/ ApplyToFromInternal
    \/ ApplyMarshalUnmarshal

SpecGroup == InitGroup /\ [][NextGroup]_vars

ValidUTF8(str) == \A i \in 1..Len(str) : str[i] # "xFF"

\* C8 as stated: for every Group, fromInternal(toInternal(g)) = g, and the wire
\* shape marshalled and unmarshalled is the wire shape.
C8_RoundTripsAnyString ==
    /\ applied = "ToFromInternal" => output = input.g
    /\ applied = "MarshalUnmarshal" => output.ok /\ output.val = InputWire

\* C8, amended: for every Group, fromInternal(toInternal(g)) = g; and the wire
\* shape marshalled and unmarshalled is the wire shape when its strings are
\* valid UTF-8 (json.Marshal replaces every invalid byte by U+FFFD).
C8_RoundTripsValidUTF8 ==
    /\ applied = "ToFromInternal" => output = input.g
    /\ (applied = "MarshalUnmarshal"
            /\ \A f \in GroupStringFields : ValidUTF8(input.g[f]))
        => output.ok /\ output.val = InputWire

\* An inactive Group with an escaped character went through the translation.
C8_Witness ==
    /\ applied = "ToFromInternal" /\ ~input.g.Active
    /\ \E f \in GroupStringFields : Len(input.g[f]) = MaxStrLen /\ input.g[f][1] = "quote"
    /\ output = input.g

----------------------------------------------------------------------------
(* A caller writes a Group and reads it back *)

\* The group a remote holds before the write.
GroupBefore == Group(TRUE, StrHello, FALSE)

InitWriteRead ==
    /\ remoteUsers = {}
    /\ remoteGroup \in {Nil, Ptr(toInternal(GroupBefore))}
    /\ ClientIdle
    /\ UserIdle
    /\ \E active \in Bools, ldap \in Bools, f \in GroupStringFields,
          str \in JsonStrings, marked \in Bools :
        input = [g |-> GroupWith(active, ldap, f, str, marked)]
    /\ applied = ""
    /\ output = <<>>

\* CreateGroup and UpdateGroup: the body is json.Marshal(toInternal(group)).
RequestBody(group) == MarshalGroup(toInternal(group))

\* One request of the caller has returned.
Returned(name, next, request, r, fault, res) ==
    /\ op' = name
    /\ pc' = next
    /\ log' = Append(log, request)
    /\ resp' = r
    /\ faulted' = fault
    /\ result' = res
    /\ open' = open + BodiesLeftOpen(Opened(r))
    /\ UNCHANGED <<remoteUsers, offset, stack, ret, todo, pages, pureVars, created, concVars,
                   userVars>>

\* CreateGroup(ctx, g)
WriteCreateGroup ==
    /\ pc = "idle"
    /\ \E r \in {HonestCreateGroup} \cup FaultResponses :
        /\ Returned("CreateGroup", "written", Req("PUT", "/group", RequestBody(input.g)),
                    r, r # HonestCreateGroup, Result(CreateGroupErr(r), Nil, <<>>))
        /\ remoteGroup' = IF r = HonestCreateGroup /\ remoteGroup = Nil
                          THEN Stored(RequestBody(input.g)) ELSE remoteGroup

\* UpdateGroup(ctx, g)
WriteUpdateGroup ==
    /\ pc = "idle"
    /\ \E r \in {HonestUpdateGroup} \cup FaultResponses :
        /\ Returned("UpdateGroup", "written", Req("POST", "/group", RequestBody(input.g)),
                    r, r # HonestUpdateGroup, Result(UpdateGroupErr(r), Nil, <<>>))
        /\ remoteGroup' = IF r = HonestUpdateGroup /\ remoteGroup # Nil
                          THEN Stored(RequestBody(input.g)) ELSE remoteGroup

\* GetGroup(ctx, g.GroupID), after the write has returned.
ReadGetGroup ==
    /\ pc = "written"
    /\ \E r \in {HonestGetGroup} \cup FaultResponses \cup BadBodies :
        Returned("GetGroup", "done", Req("GET", "/group", input.g.GroupID), r,
                 r # HonestGetGroup, GetGroupResult(r))
    /\ UNCHANGED remoteGroup

NextWriteRead ==
    \/ WriteCreateGroup
    \/ WriteUpdateGroup
    \/ ReadGetGroup

SpecWriteRead == InitWriteRead /\ [][NextWriteRead]_vars

IsGroupWrite(q) == q.p = "/group" /\ q.m \in {"PUT", "POST"}

\* C23: every request body that CreateGroup or UpdateGroup sends carries
\* s3endpointshttp, s3endpointshttps and s3websiteendpoints each as the
\* one-element list ["ALL"], whatever the Group, and active as the string
\* "true" or "false".
C23_WritesCarryAllEndpoints ==
    \A i \in 1..Len(log) :
        IsGroupWrite(log[i])
            => /\ \A f \in ListFields : log[i].a[f] = Ptr(<<StrALL>>)
               /\ log[i].a.Active \in {StrTrue, StrFalse}
               /\ log[i].a.Active = StrTrue <=> input.g.Active

\* UpdateGroup has sent, to a remote that failed the request, the body of an
\* inactive Group that has a field of the greatest length.
C23_Witness ==
    /\ pc = "written" /\ op = "UpdateGroup" /\ faulted
    /\ Len(log) = 1 /\ IsGroupWrite(log[1])
    /\ ~input.g.Active /\ log[1].a.Active = StrFalse
    /\ \E f \in GroupStringFields : Len(input.g[f]) = MaxStrLen
    /\ log[1].a.S3EndpointsHTTP = Ptr(<<StrALL>>)

\* The write was accepted: the remote answered 200 and stored the body.
WriteStored == pc = "written" /\ ~faulted /\ resp.status = 200 /\ result.err = ErrNil
\* The read that follows is served by the remote.
ReadServed == pc' = "done" /\ ~faulted'

GroupIsValidUTF8(g) == \A f \in GroupStringFields : ValidUTF8(g[f])

\* C26 as stated: after CreateGroup(g) or UpdateGroup(g) succeeded against a
\* remote that stores the body it receives and serves it back, GetGroup
\* returns a Group equal to g in every field.
C26_WriteThenReadAnyString ==
    [][(WriteStored /\ ReadServed)
            => (result'.err = ErrNil /\ result'.group = Ptr(input.g))]_vars

\* C26, amended: after CreateGroup(g) or UpdateGroup(g) succeeded against a
\* remote that stores the body it receives and serves it back, GetGroup
\* returns a Group equal to g in every field when the strings of g are valid
\* UTF-8 (json.Marshal writes every invalid byte as U+FFFD, and that is what
\* the remote stores).
C26_WriteThenReadValidUTF8 ==
    [][(WriteStored /\ ReadServed /\ GroupIsValidUTF8(input.g))
            => (result'.err = ErrNil /\ result'.group = Ptr(input.g))]_vars

\* GetGroup has returned the active Group that CreateGroup wrote, a string of
\* which holds a quote and is of the greatest length.
C26_Witness ==
    /\ pc = "done" /\ op = "GetGroup" /\ ~faulted
    /\ Len(log) = 2 /\ log[1].m = "PUT" /\ remoteGroup = Stored(log[1].a)
    /\ input.g.Active /\ GroupIsValidUTF8(input.g)
    /\ \E f \in GroupStringFields : Len(input.g[f]) = MaxStrLen /\ input.g[f][1] = "quote"
    /\ result.err = ErrNil /\ result.group = Ptr(input.g)

----------------------------------------------------------------------------
(* Quantity.ToKiB *)

\* The longest run of digits of a Quantity.
MaxDigits == 7
\* ToKiB divides the byte count by 1024.
KiB == 1024

\* The digits of the Quantity strings that are tried.
DigitChars == {"0", "1", "9"}
BinarySuffixes == {<<"K", "i">>, <<"M", "i">>, <<"G", "i">>, <<"T", "i">>}

\* The strings of the pattern ^(0|((0|[1-9][0-9]*)[KMGT]i))$.
Numerals ==
    {<<"0">>} \cup {d \in StringsOver(DigitChars, MaxDigits) : d # <<>> /\ d[1] # "0"}
Quantities == {<<"0">>} \cup {d \o x : d \in Numerals, x \in BinarySuffixes}

IsDigit(c) == c \in {"0", "1", "2", "3", "4", "5", "6", "7", "8", "9"}
DigitValue(c) ==
    CASE c = "0" -> 0 [] c = "1" -> 1 [] c = "2" -> 2 [] c = "3" -> 3 [] c = "4" -> 4
      [] c = "5" -> 5 [] c = "6" -> 6 [] c = "7" -> 7 [] c = "8" -> 8 [] c = "9" -> 9

\* An int64 and the numbers beyond it are written in base 1024, lowest limb
\* first, zero as the empty sequence.
RECURSIVE Limbs(_)
Limbs(n) == IF n = 0 THEN <<>> ELSE <<n % KiB>> \o Limbs(n \div KiB)

\* l * 1024^k
ShiftLimbs(l, k) == IF l = <<>> THEN <<>> ELSE [i \in 1..k |-> 0] \o l

RECURSIVE Greater(_, _)
Greater(a, b) ==
    IF Len(a) # Len(b) THEN Len(a) > Len(b)
    ELSE IF a = <<>> THEN FALSE
    ELSE IF Last(a) # Last(b) THEN Last(a) > Last(b)
    ELSE Greater(SubSeq(a, 1, Len(a) - 1), SubSeq(b, 1, Len(b) - 1))

\* math.MaxInt64 = 2^63 - 1
MaxInt64 == <<KiB - 1, KiB - 1, KiB - 1, KiB - 1, KiB - 1, KiB - 1, 7>>

\* The length of the run of digits a string begins with.
RECURSIVE DigitRun(_)
DigitRun(str) ==
    IF str = <<>> \/ ~IsDigit(Head(str)) THEN 0 ELSE 1 + DigitRun(Tail(str))

RECURSIVE ParseDigits(_, _)
ParseDigits(str, acc) ==
    IF str = <<>> THEN acc ELSE ParseDigits(Tail(str), 10 * acc + DigitValue(Head(str)))

\* The power of 1024 a suffix stands for; 0 without a suffix, -1 for a suffix
\* that is none of Ki, Mi, Gi and Ti.
SuffixPower(x) ==
    CASE x = <<>> -> 0
      [] x = <<"K", "i">> -> 1
      [] x = <<"M", "i">> -> 2
      [] x = <<"G", "i">> -> 3
      [] x = <<"T", "i">> -> 4
      [] OTHER -> -1

\* resource.ParseQuantity on the strings of the pattern: the digits times the
\* suffix's power of two, capped at math.MaxInt64 for a binary suffix.
ParseQuantity(str) ==
    LET k      == DigitRun(str)
        power  == SuffixPower(SubSeq(str, k + 1, Len(str)))
        amount == ShiftLimbs(Limbs(ParseDigits(SubSeq(str, 1, k), 0)), power)
    IN IF k = 0 \/ power < 0 THEN [ok |-> FALSE, value |-> <<>>]
       ELSE [ok    |-> TRUE,
             value |-> IF power > 0 /\ Greater(amount, MaxInt64) THEN MaxInt64
                       ELSE amount]

\* An int64 divided by 1024: the lowest limb is dropped.
DivideByKiB(l) == IF l = <<>> THEN <<>> ELSE Tail(l)

\* (a slip: the byte count is returned)
ToKiBInBytes(q) ==
    IF q = Nil THEN [val |-> Nil, err |-> ErrNil]
    ELSE LET rq == ParseQuantity(q[1])
         IN IF ~rq.ok THEN [val |-> Nil, err |-> ErrOther]
            ELSE [val |-> Ptr(rq.value), err |-> ErrNil]
ToKiB(q) ==
    IF q = Nil THEN [val |-> Nil, err |-> ErrNil]
    ELSE LET rq == ParseQuantity(q[1])
         IN IF ~rq.ok THEN [val |-> Nil, err |-> ErrOther]
            ELSE [val |-> Ptr(DivideByKiB(rq.value)), err |-> ErrNil]

InitQuantity ==
    /\ SdkUnused
    /\ input \in {Nil} \cup {Ptr(q) : q \in Quantities}
    /\ applied = ""
    /\ output = <<>>

ApplyToKiB == Applies("ToKiB", ToKiB(input))

NextQuantity == ApplyToKiB

SpecQuantity == InitQuantity /\ [][NextQuantity]_vars

\* The number a numeral writes, and the whole string's unit.
NumberOf(str) == ParseDigits(SubSeq(str, 1, DigitRun(str)), 0)
UnitOf(str) == SubSeq(str, DigitRun(str) + 1, Len(str))

----------------------------------------------------------------------------
(* ByteSize *)

\* The greatest count of a unit that a ByteSize literal is built from.
MaxCount == 40

\* A ByteSize is a uint64, written like the byte counts above in base 1024,
\* lowest limb first; a shift by ten bits is a shift by one limb.  No value
\* that is built here reaches 2^64.
KB == <<1>>
MB == ShiftLimbs(KB, 1)
GB == ShiftLimbs(MB, 1)
TB == ShiftLimbs(GB, 1)

UnitNames == {"KB", "MB", "GB", "TB"}
UnitOfName(name) ==
    CASE name = "KB" -> KB [] name = "MB" -> MB [] name = "GB" -> GB [] name = "TB" -> TB

\* count * unit, as in 3 * TB.
TimesUnit(count, unit) == ShiftLimbs(Limbs(count), Len(unit) - 1)

\* b / unit, for a unit that is a power of 1024.
DivideByUnit(b, unit) == SubSeq(b, Len(unit), Len(b))

\* The quotient and the remainder of a number by ten.
RECURSIVE DivideByTen(_)
DivideByTen(l) ==
    IF l = <<>> THEN [q |-> <<>>, r |-> 0]
    ELSE LET hi == DivideByTen(Tail(l))
             n  == KiB * hi.r + Head(l)
         IN [q |-> IF hi.q = <<>> /\ n \div 10 = 0 THEN <<>> ELSE <<n \div 10>> \o hi.q,
             r |-> n % 10]

DigitChar(d) == <<"0", "1", "2", "3", "4", "5", "6", "7", "8", "9">>[d + 1]

RECURSIVE DecimalDigits(_)
DecimalDigits(l) ==
    IF l = <<>> THEN <<>>
    ELSE LET d == DivideByTen(l) IN Append(DecimalDigits(d.q), DigitChar(d.r))

\* fmt.Sprintf("%d", n)
FormatDecimal(l) == IF l = <<>> THEN <<"0">> ELSE DecimalDigits(l)

\* uint64(b)
ByteSizeKB(b) == b

\* (a slip: the count of MB is rendered)
KBStringPerMB(b) == IF b = <<>> THEN <<"0">> ELSE FormatDecimal(DivideByUnit(b, MB))
KBString(b) == IF b = <<>> THEN <<"0">> ELSE FormatDecimal(DivideByUnit(b, KB))

InitByteSize ==
    /\ SdkUnused
    /\ \E count \in 0..MaxCount, name \in UnitNames :
        input = [count |-> count, unit |-> name]
    /\ applied = ""
    /\ output = <<>>

\* b := count * unit; b.KB() and b.KBString()
ApplyKBString ==
    LET b == TimesUnit(input.count, UnitOfName(input.unit))
    IN Applies("KBString", [KB |-> ByteSizeKB(b), KBString |-> KBString(b)])

NextByteSize == ApplyKBString

SpecByteSize == InitByteSize /\ [][NextByteSize]_vars

\* l * m + c, for a number l and small m and c.
RECURSIVE TimesPlus(_, _, _)
TimesPlus(l, m, c) ==
    IF l = <<>> THEN Limbs(c)
    ELSE <<(Head(l) * m + c) % KiB>> \o TimesPlus(Tail(l), m, (Head(l) * m + c) \div KiB)

\* The number a decimal numeral writes.
RECURSIVE ValueOfDecimal(_, _)
ValueOfDecimal(str, acc) ==
    IF str = <<>> THEN acc
    ELSE ValueOfDecimal(Tail(str), TimesPlus(acc, 10, DigitValue(Head(str))))

\* C25: ByteSize counts KiB with KB = 1, MB = 2^10, GB = 2^20 and TB = 2^30,
\* and for every ByteSize b, b.KBString() is the decimal rendering of b.KB():
\* (3 * TB).KBString() is the decimal of 3*1024*1024*1024 and the KBString of
\* 0 is "0".
C25_KBStringIsDecimalOfKB ==
    /\ KB = Limbs(1) /\ MB = Limbs(2^10) /\ GB = Limbs(2^20) /\ TB = Limbs(2^30)
    /\ applied = "KBString" =>
        /\ output.KB = IF input.count = 0 THEN <<>>
                       ELSE TimesPlus(UnitOfName(input.unit), input.count, 0)
        /\ output.KBString # <<>>
        /\ \A i \in 1..Len(output.KBString) : IsDigit(output.KBString[i])
        /\ Len(output.KBString) > 1 => output.KBString[1] # "0"
        /\ ValueOfDecimal(output.KBString, <<>>) = output.KB
        /\ input.count = 0 => output.KBString = <<"0">>
        /\ (input.count = 3 /\ input.unit = "TB")
                => output.KBString = <<"3", "2", "2", "1", "2", "2", "5", "4", "7", "2">>

\* KBString was applied to 3 * TB.
C25_Witness ==
    /\ applied = "KBString" /\ input.count = 3 /\ input.unit = "TB"
    /\ output.KB = <<0, 0, 0, 3>>
    /\ output.KBString = <<"3", "2", "2", "1", "2", "2", "5", "4", "7", "2">>

----------------------------------------------------------------------------
(* The Group controller's isUpToDate *)

PointerFields == {"Active", "GroupName", "LDAPEnabled", "LDAPGroup", "LDAPMatchAttribute",
                  "LDAPSearch", "LDAPSearchUserBase", "LDAPServerURL",
                  "LDAPUserDNTemplate"}
SliceFields == {"S3EndpointsHTTP", "S3EndpointsHTTPS", "S3WebsiteEndpoints"}
OptionalFields == PointerFields \cup SliceFields

StrX == <<"X">>
StrOsloBergen == <<"o", "s", "l", "o", ",", "b", "e", "r", "g", "e", "n">>

\* The values a field of GroupParameters takes: nil, or a pointer or a list.
FieldValues(f) ==
    IF f = "LDAPEnabled" THEN {Nil, Ptr(TRUE), Ptr(FALSE)}
    ELSE IF f = "Active" THEN {Nil, Ptr(StrTrue), Ptr(StrFalse)}
    ELSE IF f \in SliceFields
         THEN {Nil, Ptr(<<StrALL>>), Ptr(<<StrOsloBergen>>), Ptr(<<StrALL, StrOsloBergen>>)}
    ELSE {Nil, Ptr(<<>>), Ptr(StrX)}

\* (a slip: the endpoint lists are not compared)
DiffOfPointerFields(desired, observed) ==
    {f \in PointerFields \cup {"GroupID"} :
        /\ f \in PointerFields => desired[f] # Nil
        /\ desired[f] # observed[f]}
\* (a slip: desired and observed are compared as they are)
DiffOfAllFields(desired, observed) ==
    {f \in OptionalFields \cup {"GroupID"} : desired[f] # observed[f]}
\* The fields of desired that differ from observed: a field that is nil in
\* desired is not compared.
Diff(desired, observed) ==
    {f \in OptionalFields \cup {"GroupID"} :
        /\ f \in OptionalFields => desired[f] # Nil
        /\ desired[f] # observed[f]}

isUpToDate(desired, observed) ==
    [upToDate |-> Diff(desired, observed) = {}, diff |-> Diff(desired, observed)]

\* GroupParameters with the given GroupID and nothing else set.
OnlyGroupID(id) == [f \in OptionalFields \cup {"GroupID"} |-> IF f = "GroupID" THEN id ELSE Nil]

\* What the remote is observed to hold for a group created with its GroupID only.
ObservedDefault(id) ==
    [f \in OptionalFields \cup {"GroupID"} |->
        CASE f = "GroupID" -> id
          [] f = "Active" -> Ptr(StrTrue)
          [] f = "GroupName" -> Ptr(<<>>)
          [] f = "LDAPEnabled" -> Ptr(FALSE)
          [] f \in SliceFields -> Ptr(<<StrALL>>)
          [] OTHER -> Nil]

GroupIDs == {StrQA, <<"d">>}

\* Desired states that set up to two fields, observed states that depart from
\* the default in up to one field.
InitUpToDate ==
    /\ SdkUnused
    /\ \E id \in GroupIDs, f1 \in OptionalFields, f2 \in OptionalFields :
       \E v1 \in FieldValues(f1), v2 \in FieldValues(f2) :
       \E oid \in GroupIDs, f \in OptionalFields :
       \E v \in FieldValues(f) :
        input = [desired  |-> [[OnlyGroupID(id) EXCEPT ![f1] = v1] EXCEPT ![f2] = v2],
                 observed |-> [ObservedDefault(oid) EXCEPT ![f] = v]]
    /\ applied = ""
    /\ output = <<>>

ApplyIsUpToDate == Applies("isUpToDate", isUpToDate(input.desired, input.observed))

NextUpToDate == ApplyIsUpToDate

SpecUpToDate == InitUpToDate /\ [][NextUpToDate]_vars

\* C10: a field that is nil in desired never contributes a difference: the
\* result is the same for every observed value of that field, and the field
\* is not in the diff; desired {GroupID: "QA"} against observed
\* {GroupID: "QA", GroupName: ""} is up to date.
C10_NilDesiredFieldIsNoDifference ==
    applied = "isUpToDate" =>
        /\ \A f \in OptionalFields :
            input.desired[f] = Nil =>
                /\ f \notin output.diff
                /\ output.upToDate =
                     (\A x \in (OptionalFields \ {f}) \cup {"GroupID"} :
                         input.desired[x] = Nil \/ input.desired[x] = input.observed[x])
        /\ (input.desired = OnlyGroupID(StrQA) /\ input.observed.GroupID = StrQA)
                => output.upToDate

\* Desired sets only the GroupID, observed has the empty GroupName.
C10_Witness ==
    /\ applied = "isUpToDate"
    /\ input.desired = OnlyGroupID(StrQA)
    /\ input.observed = ObservedDefault(StrQA)
    /\ input.observed.GroupName = Ptr(<<>>)
    /\ output.upToDate

\* A desired pointer field agrees with observed: it is nil, or observed is set
\* to the same value.
PointerAgrees(d, o) == d = Nil \/ (o # Nil /\ d[1] = o[1])
\* A desired endpoint list agrees with observed: it is nil, or observed is a
\* list of the same length with the same element at every index.
SliceAgrees(d, o) ==
    d = Nil \/ (/\ o # Nil
                /\ Len(d[1]) = Len(o[1])
                /\ \A i \in 1..Len(d[1]) : d[1][i] = o[1][i])

\* C11: isUpToDate is false whenever the GroupID differs, or a desired pointer
\* field that is set differs from the observed value (a nil one included), or
\* a desired endpoint list that is set is not element-wise equal to the
\* observed list; it is true when every desired field that is set equals the
\* observed one.
C11_SetDesiredFieldMustMatch ==
    applied = "isUpToDate" =>
        output.upToDate =
            (/\ input.desired.GroupID = input.observed.GroupID
             /\ \A f \in PointerFields :
                    PointerAgrees(input.desired[f], input.observed[f])
             /\ \A f \in SliceFields :
                    SliceAgrees(input.desired[f], input.observed[f]))

\* Desired sets an endpoint list that observed extends by one element: not up
\* to date, for that list alone.
C11_Witness ==
    /\ applied = "isUpToDate"
    /\ input.desired.GroupID = input.observed.GroupID
    /\ input.desired.S3EndpointsHTTP = Ptr(<<StrALL>>)
    /\ input.observed.S3EndpointsHTTP = Ptr(<<StrALL, StrOsloBergen>>)
    /\ \A f \in PointerFields : input.desired[f] = Nil
    /\ ~output.upToDate
    /\ output.diff = {"S3EndpointsHTTP"}

----------------------------------------------------------------------------
(* The User controller: Observe, Create, Update and Delete of one resource *)

\* The most access keys a user owns.
MaxKeys == 2

AccessKeys == 1..MaxKeys

\* The User resources: the external name (0 is the empty name) and the
\* GroupID of spec.forProvider, with an empty status.
UserResource(name, group) ==
    [name |-> name, group |-> group, CanonicalID |-> <<>>, Available |-> FALSE]
UserResources == {UserResource(n, g) : n \in {0, 1}, g \in {<<>>, StrQA}}

\* The remote's user u of group g.
CanonicalIDOf(u) == <<"c", "i", "d">>
UserExists(g, u) ==
    remoteGroup # Nil /\ remoteGroup[1].GroupID = g /\ u \in remoteUsers
RemoteUser(g, u) == [UserID |-> u, GroupID |-> g, CanonicalID |-> CanonicalIDOf(u)]

\* GET /user: 200 and the user, 204 when there is none.
HonestGetUser(g, u) ==
    IF UserExists(g, u) THEN Resp(FALSE, 200, "user", Nil, <<RemoteUser(g, u)>>)
    ELSE Resp(FALSE, 204, "empty", Nil, <<>>)

\* PUT /user for a user of group g: the new user is given one access key.
CanCreateUserIn(g, u) ==
    /\ remoteGroup # Nil /\ remoteGroup[1].GroupID = g
    /\ u \in UserIDs /\ CanCreateUser(u)
HonestCreateUserIn(g, u) ==
    Resp(FALSE, IF CanCreateUserIn(g, u) THEN 200 ELSE 400, "empty", Nil, <<>>)

\* GET /user/credentials/list: the user's keys in order; for a user without
\* keys 204 or the empty list; 400 when there is no such user.
KeyList(keys) ==
    [i \in 1..Cardinality(keys) |-> SecurityInfo(SortedSeq(keys)[i], <<"s">>)]
HonestListCredentials(g, u) ==
    IF ~UserExists(g, u) THEN {Resp(FALSE, 400, "empty", Nil, <<>>)}
    ELSE IF remoteKeys[u] = {}
    THEN {Resp(FALSE, 204, "empty", Nil, <<>>), Resp(FALSE, 200, "creds", Nil, <<>>)}
    ELSE {Resp(FALSE, 200, "creds", Nil, KeyList(remoteKeys[u]))}

\* DELETE /user/credentials: 200 and the key is gone, 400 when no user owns it.
KeyOwned(k) == \E u \in remoteUsers : k \in remoteKeys[u]
HonestDeleteCredentials(k) ==
    Resp(FALSE, IF KeyOwned(k) THEN 200 ELSE 400, "empty", Nil, <<>>)

\* Client.GetUser: 200 gives the user of the body, 204 ErrNotFound, every
\* other status an error.
GetUserResult(r) ==
    IF r.transport THEN Result(ErrOther, Nil, <<>>)
    ELSE IF r.status = 200 THEN
        IF r.kind # "user" THEN Result(ErrOther, Nil, <<>>)
        ELSE Result(ErrNil, Nil, r.list)
    ELSE IF r.status = 204 THEN Result(ErrNotFound, Nil, <<>>)
    ELSE Result(ErrOther, Nil, <<>>)

\* Client.ListUserCredentials is GetUserCredentials under its later name.
ListUserCredentialsResult(r) == GetUserCredentialsResult(r)

\* Client.DeleteUserCredentials: only 200 is a success.
DeleteUserCredentialsErr(r) ==
    IF r.transport THEN ErrOther
    ELSE IF r.status = 200 THEN ErrNil ELSE ErrOther

InitUser ==
    /\ remoteGroup \in {Nil, Ptr(toInternal(Group(TRUE, <<>>, FALSE)))}
    /\ remoteUsers \in {{}, {1}}
    /\ remoteGroup = Nil => remoteUsers = {}
    /\ \E keys \in SUBSET AccessKeys :
        remoteKeys = [u \in UserIDs |-> IF u \in remoteUsers THEN keys ELSE {}]
    /\ ClientIdle
    /\ PureIdle
    /\ cr \in UserResources
    /\ observation = NoObservation
    /\ client = Nil
    /\ procs = <<>>

\* A step of a handler: the request it issues and the response it is given.
Issues(request, r, fault) ==
    /\ log' = Append(log, request)
    /\ resp' = r
    /\ faulted' = (faulted \/ fault)
    /\ open' = open + BodiesLeftOpen(Opened(r))

\* A handler returns err to the managed reconciler.
Finishes(err) == pc' = "done" /\ result' = Result(err, Nil, <<>>)

\* errors.Is(err, cloudian.ErrNotFound)
\* (a slip: no error is taken for ErrNotFound)
IsNotFoundNever(err) == FALSE
IsNotFound(err) == err = ErrNotFound

\* Observe: without an external name or a GroupID nothing is asked; else
\* GetUser decides.
Observe ==
    /\ pc = "idle"
    /\ op' = "Observe"
    /\ IF cr.name = 0 \/ cr.group = <<>>
       THEN /\ observation' = NoObservation
            /\ Finishes(ErrNil)
            /\ UNCHANGED <<log, resp, faulted, ret, cr, open>>
       ELSE \E r \in {HonestGetUser(cr.group, cr.name)} \cup FaultResponses \cup BadBodies :
            LET user == GetUserResult(r)
            IN /\ Issues(Req("GET", "/user", cr.name), r, r # HonestGetUser(cr.group, cr.name))
               /\ ret' = user
               /\ IF IsNotFound(user.err)
                  THEN /\ observation' = NoObservation
                       /\ Finishes(ErrNil)
                       /\ cr' = cr
                  ELSE IF user.err # ErrNil
                  THEN /\ observation' = NoObservation
                       /\ Finishes(ErrOther)
                       /\ cr' = cr
                  ELSE /\ cr' = [cr EXCEPT !.CanonicalID = user.list[1].CanonicalID,
                                           !.Available = TRUE]
                       /\ observation' = [ResourceExists |-> TRUE, ResourceUpToDate |-> TRUE]
                       /\ Finishes(ErrNil)
    /\ UNCHANGED <<remoteUsers, remoteGroup, remoteKeys, offset, stack, todo, pages,
                   pureVars, created, concVars>>

\* Create: CreateUser is called; its error ends the handler.
Create ==
    /\ pc = "idle"
    /\ op' = "Create"
    /\ \E r \in {HonestCreateUserIn(cr.group, cr.name)} \cup FaultResponses :
        /\ Issues(Req("PUT", "/user", cr.name), r, r # HonestCreateUserIn(cr.group, cr.name))
        /\ \E k \in AccessKeys :
            IF r = HonestCreateUserIn(cr.group, cr.name) /\ CanCreateUserIn(cr.group, cr.name)
            THEN /\ remoteUsers' = remoteUsers \cup {cr.name}
                 /\ remoteKeys' = [remoteKeys EXCEPT ![cr.name] = {k}]
            ELSE UNCHANGED <<remoteUsers, remoteKeys>>
        /\ IF CreateUserErr(r) # ErrNil
           THEN Finishes(ErrOther)
           ELSE pc' = "create_list" /\ result' = result
    /\ UNCHANGED <<remoteGroup, offset, stack, ret, todo, pages, pureVars, created,
                   concVars, cr, observation>>

\* Create: the keys of the loop over what ListUserCredentials returned.
\* (a slip: the listed keys are left alone)
KeysToDeleteNone(creds) == <<>>
KeysToDelete(creds) == creds

\* Create: ListUserCredentials is called; its error ends the handler.
CreateListCredentials ==
    /\ pc = "create_list"
    /\ \E r \in HonestListCredentials(cr.group, cr.name) \cup FaultResponses \cup BadBodies :
        LET creds == ListUserCredentialsResult(r)
        IN /\ Issues(Req("GET", "/user/credentials/list", cr.name), r,
                     r \notin HonestListCredentials(cr.group, cr.name))
           /\ ret' = creds
           /\ IF creds.err # ErrNil
              THEN Finishes(creds.err) /\ todo' = todo
              ELSE /\ todo' = KeysToDelete(creds.list)
                   /\ pc' = "create_keys"
                   /\ result' = result
    /\ UNCHANGED <<remoteUsers, remoteGroup, remoteKeys, op, offset, stack, pages, pureVars,
                   created, concVars, cr, observation>>

\* Create: one turn of the loop, DeleteUserCredentials of the next listed key.
CreateDeleteCredentials ==
    /\ pc = "create_keys"
    /\ todo # <<>>
    /\ LET k == Head(todo).AccessKey
       IN \E r \in {HonestDeleteCredentials(k)} \cup FaultResponses :
            /\ Issues(Req("DELETE", "/user/credentials", k), r, r # HonestDeleteCredentials(k))
            /\ remoteKeys' = IF r = HonestDeleteCredentials(k)
                             THEN [u \in UserIDs |-> remoteKeys[u] \ {k}]
                             ELSE remoteKeys
            /\ IF DeleteUserCredentialsErr(r) # ErrNil
               THEN Finishes(ErrOther) /\ todo' = todo
               ELSE /\ todo' = Tail(todo)
                    /\ UNCHANGED <<pc, result>>
    /\ UNCHANGED <<remoteUsers, remoteGroup, op, offset, stack, ret, pages, pureVars,
                   created, concVars, cr, observation>>

\* Create: the loop is over, the handler returns.
CreateDone ==
    /\ pc = "create_keys"
    /\ todo = <<>>
    /\ Finishes(ErrNil)
    /\ UNCHANGED <<remoteUsers, remoteGroup, remoteKeys, op, offset, stack, ret, todo, log,
                   pages, resp, faulted, pureVars, created, concVars, cr, observation, open>>

\* Update: the requests it issues for a resource.
\* (a slip: the user is sent to the remote again)
RequestsOfUpdateResend(res) == <<Req("PUT", "/user", res.name)>>
RequestsOfUpdate(res) == <<>>

\* Update: the resource is printed, nothing is asked of the remote.
Update ==
    /\ pc = "idle"
    /\ op' = "Update"
    /\ log' = log \o RequestsOfUpdate(cr)
    /\ Finishes(ErrNil)
    /\ UNCHANGED <<remoteUsers, remoteGroup, remoteKeys, offset, stack, ret, todo,
                   pages, resp, faulted, pureVars, created, concVars, cr, observation, open>>

\* Delete: a user that has access keys is not deleted.
\* (a slip: the listing is not looked at)
HasAccessKeysNever(creds) == FALSE
HasAccessKeys(creds) == Len(creds) > 0

\* Delete: ListUserCredentials is called; its error, returned as it is, or a
\* listed key ends the handler.
Delete ==
    /\ pc = "idle"
    /\ op' = "Delete"
    /\ \E r \in HonestListCredentials(cr.group, cr.name) \cup FaultResponses \cup BadBodies :
        LET creds == ListUserCredentialsResult(r)
        IN /\ Issues(Req("GET", "/user/credentials/list", cr.name), r,
                     r \notin HonestListCredentials(cr.group, cr.name))
           /\ ret' = creds
           /\ IF creds.err # ErrNil THEN Finishes(creds.err)
              ELSE IF HasAccessKeys(creds.list) THEN Finishes(ErrOther)
              ELSE pc' = "delete_user" /\ result' = result
    /\ UNCHANGED <<remoteUsers, remoteGroup, remoteKeys, offset, stack, todo, pages,
                   pureVars, created, concVars, cr, observation>>

\* Delete: DeleteUser is called and the handler returns.
DeleteDeleteUser ==
    /\ pc = "delete_user"
    /\ \E r \in {HonestDeleteUser(cr.name)} \cup FaultResponses :
        /\ Issues(Req("DELETE", "/user", cr.name), r, r # HonestDeleteUser(cr.name))
        /\ IF r = HonestDeleteUser(cr.name)
           THEN /\ remoteUsers' = remoteUsers \ {cr.name}
                /\ remoteKeys' = [u \in UserIDs |->
                                    IF u = cr.name THEN {} ELSE remoteKeys[u]]
           ELSE UNCHANGED <<remoteUsers, remoteKeys>>
        /\ Finishes(DeleteUserErr(r))
    /\ UNCHANGED <<remoteGroup, op, offset, stack, ret, todo, pages, pureVars, created,
                   concVars, cr, observation>>

NextUser ==
    \/ Observe
    \/ Create
    \/ CreateListCredentials
    \/ CreateDeleteCredentials
    \/ CreateDone
    \/ Update
    \/ Delete
    \/ DeleteDeleteUser
    \/ Return

SpecUser == InitUser /\ [][NextUser]_vars

IsListCredentials(q) == q.m = "GET" /\ q.p = "/user/credentials/list"
IsDeleteCredentials(q) == q.m = "DELETE" /\ q.p = "/user/credentials"
IsCreateUser(q) == q.m = "PUT" /\ q.p = "/user"

\* C12: a step of Delete in which ListUserCredentials has returned one access
\* key or more ends the handler with an error, has issued no DeleteUser, and
\* leaves the remote's users and their keys as they were.
C12_DeleteKeepsUserWithKeys ==
    [][(op' = "Delete" /\ ret'.err = ErrNil /\ Len(ret'.list) > 0)
        => /\ pc' = "done"
           /\ result'.err # ErrNil
           /\ \A k \in 1..Len(log') : ~IsDeleteUser(log'[k])
           /\ remoteUsers' = remoteUsers
           /\ remoteKeys' = remoteKeys]_vars

\* Delete has returned an error for a user that owns two keys.
C12_Witness ==
    /\ op = "Delete" /\ pc = "done" /\ ~faulted
    /\ ret.err = ErrNil /\ Len(ret.list) = 2
    /\ result.err = ErrOther
    /\ cr.name \in remoteUsers /\ remoteKeys[cr.name] = {1, 2}
    /\ Len(log) = 1

\* C13: Create issues CreateUser first; when that request fails it returns the
\* error and lists and deletes nothing; else it issues ListUserCredentials and
\* then DeleteUserCredentials for the listed keys in order, and when it
\* returns success it has done so for every listed key and the user owns no
\* access key.
C13_CreateOrder ==
    op = "Create" =>
        /\ log # <<>> /\ log[1] = Req("PUT", "/user", cr.name)
        /\ (Len(log) = 1 /\ resp.transport) => pc = "done" /\ result.err # ErrNil
        /\ (Len(log) = 1 /\ pc = "done") => result.err # ErrNil
        /\ Len(log) >= 2 => log[2] = Req("GET", "/user/credentials/list", cr.name)
        /\ Len(log) >= 3 => ret.err = ErrNil /\ Len(log) <= 2 + Len(ret.list)
        /\ \A i \in 3..Len(log) :
            log[i] = Req("DELETE", "/user/credentials", ret.list[i - 2].AccessKey)
        /\ (pc = "done" /\ result.err = ErrNil)
            => /\ ret.err = ErrNil
               /\ Len(log) = 2 + Len(ret.list)
               /\ remoteKeys[cr.name] = {}

\* Create has returned success after deleting the key of the user it created.
C13_Witness ==
    /\ op = "Create" /\ pc = "done" /\ ~faulted /\ result.err = ErrNil
    /\ Len(log) = 3 /\ IsDeleteCredentials(log[3])
    /\ Len(ret.list) = 1
    /\ cr.name \in remoteUsers /\ remoteKeys[cr.name] = {}

\* C20: Observe, once it has called GetUser, maps its outcome totally: an
\* error that is ErrNotFound gives ResourceExists = false and a nil error; any
\* other error gives an error; success gives ResourceExists = true and
\* ResourceUpToDate = true, a nil error, and the remote's CanonicalID in the
\* status.
C20_ObserveMapsGetUser ==
    (op = "Observe" /\ pc = "done" /\ log # <<>>)
        => /\ ret.err = ErrNotFound
                => ~observation.ResourceExists /\ result.err = ErrNil
           /\ ret.err = ErrOther
                => result.err # ErrNil /\ observation = NoObservation
           /\ ret.err = ErrNil
                => /\ observation.ResourceExists /\ observation.ResourceUpToDate
                   /\ result.err = ErrNil
                   /\ cr.CanonicalID = ret.list[1].CanonicalID
                   /\ cr.CanonicalID = CanonicalIDOf(cr.name)
           /\ (~resp.transport /\ resp.status = 204) => ret.err = ErrNotFound

\* Observe has found no user: GetUser returned ErrNotFound for a 204.
C20_Witness ==
    /\ op = "Observe" /\ pc = "done" /\ log # <<>>
    /\ ~resp.transport /\ resp.status = 204
    /\ ret.err = ErrNotFound
    /\ ~observation.ResourceExists /\ result.err = ErrNil

\* The remote, asked honestly, reported that the user owns no access key:
\* with an empty list, or with 204, which the SDK returns as ErrNotFound.
ListedNoKeys == ret.err = ErrNotFound \/ (ret.err = ErrNil /\ ret.list = <<>>)

\* C27: Delete, applied to a user that owns no access key, issues DeleteUser
\* exactly once and returns success, also when the remote reports the absence
\* of credentials with 204.
C27_DeleteWithoutKeysDeletesUser ==
    (op = "Delete" /\ pc = "done" /\ ~faulted /\ ListedNoKeys)
        => /\ result.err = ErrNil
           /\ Len(log) = 2 /\ IsDeleteUser(log[2])
           /\ cr.name \notin remoteUsers

\* The reconcile loop of a User that the remote does not hold yet: the
\* managed reconciler invokes Observe, Create and Update, in any order.
InitReconcile ==
    /\ remoteGroup \in {Nil, Ptr(toInternal(Group(TRUE, <<>>, FALSE)))}
    /\ remoteUsers = {}
    /\ remoteKeys = [u \in UserIDs |-> {}]
    /\ ClientIdle
    /\ PureIdle
    /\ cr \in UserResources
    /\ observation = NoObservation
    /\ client = Nil
    /\ procs = <<>>

NextReconcile ==
    \/ Observe
    \/ Create
    \/ CreateListCredentials
    \/ CreateDeleteCredentials
    \/ CreateDone
    \/ Update
    \/ Return

SpecReconcile == InitReconcile /\ [][NextReconcile]_vars

\* C28: in every reachable state of the reconcile loop, with any remote call
\* allowed to fail, a user that Observe reports as existing and up to date
\* owns no access key left over from its creation.
C28_ObservedUserHasNoInitialKey ==
    (op = "Observe" /\ pc = "done" /\ result.err = ErrNil
            /\ observation.ResourceExists /\ observation.ResourceUpToDate)
        => remoteKeys[cr.name] = {}

\* C30: Update issues no request to the remote, returns success, and leaves
\* the remote user, its group and its access keys as they were, for every
\* User resource it is called with.
C30_UpdateIssuesNoRequest ==
    [][op' = "Update"
        => /\ log' = <<>>
           /\ pc' = "done" /\ result'.err = ErrNil
           /\ remoteUsers' = remoteUsers
           /\ remoteGroup' = remoteGroup
           /\ remoteKeys' = remoteKeys
           /\ cr' = cr]_vars

\* Update has returned for a User that the remote holds with its two keys.
C30_Witness ==
    /\ op = "Update" /\ pc = "done" /\ result.err = ErrNil
    /\ log = <<>>
    /\ cr.name \in remoteUsers /\ remoteKeys[cr.name] = {1, 2}

----------------------------------------------------------------------------
(* DeleteGroupRecursive while another actor creates users *)

\* The members the group has when DeleteGroupRecursive is called, and the
\* users another actor creates in the group while the call runs.
MaxMembers == 3
MaxCreated == 1

InitRecursiveDelete ==
    /\ remoteGroup = Ptr(toInternal(Group(TRUE, <<>>, FALSE)))
    /\ remoteUsers \in {1..n : n \in 0..MaxMembers}
    /\ ClientIdle
    /\ PureIdle
    /\ UserIdle

\* Another actor creates a user in the group: the remote serves its PUT /user
\* between two requests of the call.
OtherActorCreatesUser ==
    /\ op = "DeleteGroupRecursive"
    /\ pc \in {"list_req", "list_ret", "del_users"}
    /\ Cardinality(created) < MaxCreated
    /\ \E u \in 1..(MaxMembers + MaxCreated) :
        /\ CanCreateUser(u)
        /\ remoteUsers' = remoteUsers \cup {u}
        /\ created' = created \cup {u}
    /\ UNCHANGED <<remoteGroup, pc, op, offset, stack, ret, todo, log, pages, resp, faulted,
                   result, open, pureVars, userVars, concVars>>

NextRecursiveDelete ==
    \/ CallDeleteGroupRecursive
    \/ ListUsersRequest
    \/ ListUsersReturn
    \/ ListUsersDone
    \/ RecursiveDeleteUser
    \/ RecursiveDeleteGroup
    \/ OtherActorCreatesUser
    \/ Return

SpecRecursiveDelete == InitRecursiveDelete /\ [][NextRecursiveDelete]_vars

\* The step issues DeleteGroup.
IssuesDeleteGroup ==
    /\ op = "DeleteGroupRecursive"
    /\ Len(log') = Len(log) + 1 /\ IsDeleteGroup(Last(log'))

\* C29 as stated: DeleteGroupRecursive issues DeleteGroup only at a moment
\* when the remote group has no members, also when another actor creates a
\* user in the group between the ListUsers request and the DeleteGroup request
\* of the call.
C29_DeleteGroupOnlyWhenEmpty ==
    [][IssuesDeleteGroup => remoteUsers = {}]_vars

\* C29, amended: DeleteGroupRecursive issues DeleteGroup only when it has
\* deleted every user that its ListUsers returned; the members the remote
\* group has at that moment are users that another actor created in the group
\* while the call ran, so that the group has no members when there was no such
\* actor.
C29_DeleteGroupOnlyWhenListedDeleted ==
    [][IssuesDeleteGroup
        => /\ todo = <<>>
           /\ ret.err = ErrNil
           /\ \A i \in 1..Len(ret.list) : ret.list[i].UserID \notin remoteUsers \ created
           /\ remoteUsers \subseteq created
           /\ created = {} => remoteUsers = {}]_vars

\* DeleteGroupRecursive has listed and deleted the members and issued
\* DeleteGroup, which the remote rejected, while the group holds the user that
\* another actor created in between.
C29_Witness ==
    /\ op = "DeleteGroupRecursive" /\ pc = "done" /\ ~faulted
    /\ IsDeleteGroup(Last(log)) /\ Len(log) = Len(ret.list) + Len(pages) + 1
    /\ Len(ret.list) = MaxMembers
    /\ created # {} /\ remoteUsers = created
    /\ resp.status = 400 /\ remoteGroup # Nil

----------------------------------------------------------------------------
(* One Client instance used by two goroutines at once *)

Procs == {"a", "b"}

\* NewClient: the base URL, the Authorization header and the http.Client,
\* which WithInsecureTLSVerify replaces.
NewClient(baseURL, authHeader, insecure) ==
    [baseURL    |-> baseURL,
     authHeader |-> authHeader,
     httpClient |-> IF insecure THEN "insecure" ELSE "http.DefaultClient"]
Clients == {NewClient(<<"h">>, <<"t">>, i) : i \in Bools}

\* newRequest: the URL is the client's base URL followed by the path, and the
\* Authorization header is the client's.
NewRequest(c, method, path, arg) ==
    [m |-> method, url |-> <<c.baseURL, path>>, auth |-> c.authHeader,
     via |-> c.httpClient, a |-> arg]

\* What a request leaves of the client it was made with: the methods have
\* value receivers and assign to no field.
\* (a slip: the path is appended to the client's base URL)
ClientRebased(c, path) == [c EXCEPT !.baseURL = c.baseURL \o <<path>>]
ClientAfterRequest(c, path) == c

\* The remote's responses to one operation: the users it serves, and the
\* request of the operation, if any, that fails and how.
Scripts ==
    {[users |-> 1..n, fault |-> f, at |-> k] :
        n \in {0, limit, limit + 1, 2 * limit + 1},
        f \in {"none"}, k \in {0}}
    \cup {[users |-> 1..n, fault |-> f, at |-> k] :
        n \in {limit, 2 * limit + 1},
        f \in {"transport", "garbage"}, k \in 1..2}

\* The response to the k-th request of an operation.
ScriptedFault(script, k) == script.fault # "none" /\ script.at = k
FaultOf(script) ==
    IF script.fault = "transport" THEN TransportError
    ELSE Resp(FALSE, 200, "garbage", Nil, <<>>)
ScriptedList(script, o, k) ==
    IF ScriptedFault(script, k) THEN FaultOf(script)
    ELSE Resp(FALSE, 200, "users", Nil, Page(script.users, o))
ScriptedDeleteUser(script, u) ==
    IF ScriptedFault(script, 1) THEN FaultOf(script)
    ELSE Resp(FALSE, IF u \in script.users THEN 200 ELSE 400, "empty", Nil, <<>>)

\* ListUsers, as the recursion of the source: the requests it sends and what
\* it returns, when it runs with client c from offset o as the k-th request.
RECURSIVE ListUsersAlone(_, _, _, _)
ListUsersAlone(c, script, o, k) ==
    LET q == NewRequest(c, "GET", "/user/list", o)
        r == ScriptedList(script, o, k)
    IN IF ListFails(r) THEN [log |-> <<q>>, res |-> Result(ErrOther, Nil, <<>>)]
       ELSE IF HasMore(r.list) THEN
            LET more == ListUsersAlone(c, script, NextOffset(r.list), k + 1)
            IN [log |-> <<q>> \o more.log,
                res |-> IF more.res.err # ErrNil THEN Result(ErrOther, Nil, <<>>)
                        ELSE Result(ErrNil, Nil, StripSentinel(r.list) \o more.res.list)]
       ELSE [log |-> <<q>>, res |-> Result(ErrNil, Nil, r.list)]

DeleteUserAlone(c, script, u) ==
    [log |-> <<NewRequest(c, "DELETE", "/user", u)>>,
     res |-> Result(DeleteUserErr(ScriptedDeleteUser(script, u)), Nil, <<>>)]

\* The operation of a goroutine, run alone with client c.
RunsAlone(c, name, script) ==
    IF name = "ListUsers" THEN ListUsersAlone(c, script, 0, 1)
    ELSE DeleteUserAlone(c, script, 1)

\* A goroutine that has not called its operation yet.
Goroutine(c, name, script) ==
    [op |-> name, script |-> script, made |-> c, pc |-> "idle", client |-> Nil, offset |-> 0,
     stack |-> <<>>, ret |-> NoResult, log |-> <<>>, result |-> NoResult,
     overlapped |-> FALSE]

InitConcurrent ==
    /\ SdkUnusedButClient
    /\ \E c \in Clients :
        /\ client = c
        /\ procs \in [Procs -> {Goroutine(c, name, script) :
                                  name \in {"ListUsers", "DeleteUser"}, script \in Scripts}]

\* Another goroutine is inside its operation.
OthersRunning(p) == \E q \in Procs \ {p} : procs[q].pc \notin {"idle", "done"}

\* Goroutine p takes a step that leaves it as g.
Goes(p, g) ==
    procs' = [procs EXCEPT ![p] = [g EXCEPT !.overlapped = @ \/ OthersRunning(p)]]

\* p calls its operation on the shared client: the value receiver copies it.
GoCall(p) ==
    /\ procs[p].pc = "idle"
    /\ Goes(p, [procs[p] EXCEPT !.pc = "req", !.client = client])
    /\ UNCHANGED <<client, sdkVars, pureVars, created, remoteKeys, cr, observation>>

\* p sends the request of DeleteUser and returns.
GoDeleteUser(p) ==
    LET g == procs[p]
        r == ScriptedDeleteUser(g.script, 1)
    IN /\ g.pc = "req" /\ g.op = "DeleteUser"
       /\ Goes(p, [g EXCEPT !.log = Append(@, NewRequest(g.client, "DELETE", "/user", 1)),
                            !.result = Result(DeleteUserErr(r), Nil, <<>>),
                            !.pc = "done"])
       /\ client' = ClientAfterRequest(client, "/user")
       /\ UNCHANGED <<sdkVars, pureVars, created, remoteKeys, cr, observation>>

\* p sends the request of one frame of ListUsers, up to the frame's recursive
\* call or its return.
GoListUsersRequest(p) ==
    LET g == procs[p]
        r == ScriptedList(g.script, g.offset, Len(g.log) + 1)
        sent == [g EXCEPT !.log = Append(@, NewRequest(g.client, "GET", "/user/list", g.offset))]
    IN /\ g.pc = "req" /\ g.op = "ListUsers"
       /\ Goes(p, IF ListFails(r)
                  THEN [sent EXCEPT !.ret = Result(ErrOther, Nil, <<>>), !.pc = "ret"]
                  ELSE IF HasMore(r.list)
                  THEN [sent EXCEPT !.stack = Append(@, StripSentinel(r.list)),
                                    !.offset = NextOffset(r.list)]
                  ELSE [sent EXCEPT !.ret = Result(ErrNil, Nil, r.list), !.pc = "ret"])
       /\ client' = ClientAfterRequest(client, "/user/list")
       /\ UNCHANGED <<sdkVars, pureVars, created, remoteKeys, cr, observation>>

\* A recursive call of ListUsers returns to the frame of p that made it.
GoListUsersReturn(p) ==
    LET g == procs[p]
    IN /\ g.pc = "ret" /\ g.stack # <<>>
       /\ Goes(p, [g EXCEPT !.stack = SubSeq(@, 1, Len(@) - 1),
                            !.ret = FrameReturns(Last(g.stack), g.ret)])
       /\ UNCHANGED <<client, sdkVars, pureVars, created, remoteKeys, cr, observation>>

\* The outermost ListUsers of p returns.
GoListUsersDone(p) ==
    LET g == procs[p]
    IN /\ g.pc = "ret" /\ g.stack = <<>>
       /\ Goes(p, [g EXCEPT !.result = g.ret, !.pc = "done"])
       /\ UNCHANGED <<client, sdkVars, pureVars, created, remoteKeys, cr, observation>>

NextConcurrent ==
    \E p \in Procs :
        \/ GoCall(p)
        \/ GoDeleteUser(p)
        \/ GoListUsersRequest(p)
        \/ GoListUsersReturn(p)
        \/ GoListUsersDone(p)

SpecConcurrent == InitConcurrent /\ [][NextConcurrent]_vars

IsPrefix(q, full) == Len(q) <= Len(full) /\ \A i \in 1..Len(q) : q[i] = full[i]

\* C16: no step of an operation changes the client's baseURL, authHeader or
\* httpClient; and in every interleaving of two operations on the one client,
\* the requests an operation has sent are the first of those it sends when it
\* runs alone against the same responses, and when it has returned they are
\* all of them and its result is the same.
C16_ClientIsReadOnly ==
    [][/\ client' = client
       /\ \A p \in Procs :
            LET g == procs'[p]
                alone == RunsAlone(g.made, g.op, g.script)
            IN /\ IsPrefix(g.log, alone.log)
               /\ g.pc = "done" => g.log = alone.log /\ g.result = alone.res]_vars

\* Two listings of three pages each have returned, each having taken steps
\* while the other was running.
C16_Witness ==
    /\ \A p \in Procs :
        /\ procs[p].op = "ListUsers" /\ procs[p].pc = "done" /\ procs[p].overlapped
        /\ Len(procs[p].log) = 3
        /\ procs[p].result.err = ErrNil
        /\ Len(procs[p].result.list) = 2 * limit + 1
    /\ client = procs["a"].made

====
